---- MODULE Spec2Model ----
(***************************************************************************)
(* shorts-engine: the resumable per-shot stage pipeline of                 *)
(* EffectManager.add_effects_and_captions_and_audio_to_project_shots       *)
(* (src/src/shorts_engine/video/EffectManager.py).                         *)
(*                                                                         *)
(* The blueprint on disk, the files of the project directory and the       *)
(* in-memory blueprint of the running process are the state.  One action   *)
(* per stage of the shot loop, each with every state change the code makes *)
(* in that stage, the blueprint rewrite included.  The process may be      *)
(* killed between two stages; a later run starts again from the disk.      *)
(***************************************************************************)
EXTENDS Integers, Sequences, FiniteSets, TLC

\* Number of shots of the scene (blueprint.scene.shots).
NShots == 2

Shots == 1..NShots

\* ---------------------------------------------------------------------------
\* Paths.  A path is <<kind, n>>: the kind names the directory and suffix, n
\* the shot whose file stem it carries.
\* ---------------------------------------------------------------------------
NoPath == <<"none", 0>>

\* The asset the authoring step recorded for shot s.
SourceAsset(s) == <<"src", s>>

\* The narration audio of shot s and its alignment document.
AudioFile(s) == <<"audio", s>>

\* EffectManager.py:109-110  assets_dir / f"{asset_path.stem}_animated.mp4"
AnimatedPath(asset_path) == <<"animated", asset_path[2]>>

\* EffectManager.py:438-439  output_dir / f"{project}_{version}_shot_{i+1}.mp4"
OutputPath(i) == <<"output", i>>

\* EffectManager.py:479  Path(shot.audio_path).with_suffix('.json')
TimestampFile(audio_path) ==
    IF audio_path = NoPath THEN NoPath ELSE <<"json", audio_path[2]>>

\* EffectManager.py:396-397  output_dir / timestamp_file.with_suffix('.ass').name
AssPath(timestamp_file) == <<"ass", timestamp_file[2]>>

\* The input configurations of a shot when the pipeline is first run.
ShotKinds ==
    {"full", "no_audio", "no_json", "no_words", "no_asset", "audio_missing"}

Stages == {"motion", "captions", "composite"}

VARIABLES
    disk,       \* the blueprint document final_<version>.json
    files,      \* the paths that exist in the project directory
    wordless,   \* the alignment documents whose characters hold no word
    mem,        \* the blueprint object of the running process
    pc,         \* position of the process: idle, shot, captions, composite
    i,          \* loop index of the shot being processed (1-based)
    result,     \* outcome of the last run: none, ok, fail, killed
    entry,      \* history: the blueprint as loaded at the start of the run
    started,    \* history: <<shot, stage>> pairs started in this run
    first,      \* history: per shot, the first stage started in this run
    completed,  \* history: <<shot, stage>> pairs completed in any run
    prior,      \* history: the pairs completed before this run started
    failure,    \* history: where and why this run returned False
    rerun,      \* history: an earlier run was killed or returned False
    afterKill,  \* history: the run before this one was killed
    envFailed,  \* history: an external call failed in this run
    motionFailed, \* history: shot whose external motion render failed (0: none)
    inconsistent, \* history: a final shot lacked its video when the run began
    removed,    \* history: artifacts deleted from outside the pipeline
    cap,        \* one caption stage on one alignment document: input, output
    ez,         \* one zoom trajectory: style, frame counter, computed values
    dk,         \* the sandbox manager and the containers of the daemon
    tts,        \* the narration client: keys, blueprint, audio files
    pj,         \* one project under the commands of main.py, any writers
    rt          \* one blueprint written to JSON and read back

vars == <<disk, files, wordless, mem, pc, i, result, entry, started, first,
          completed, prior, failure, rerun, afterKill, envFailed,
          motionFailed, inconsistent, removed, cap, ez, dk, tts, pj, rt>>

\* The state of the shot pipeline, and the state outside it.
pipeline == <<disk, files, wordless, mem, pc, i, result, entry, started,
              first, completed, prior, failure, rerun, afterKill, envFailed,
              motionFailed, inconsistent, removed>>

others == <<cap, ez, dk, tts, pj, rt>>

hist == <<entry, prior, rerun, afterKill, inconsistent>>

NoFailure == [shot |-> 0, cause |-> "none"]

\* models.py:210-246  a Shot as the authoring step leaves it.
NewShot(s, kind) ==
    [asset_path |-> SourceAsset(s),
     audio_path |-> IF kind = "no_audio" THEN NoPath ELSE AudioFile(s),
     ass_file_path |-> NoPath,
     applyed_ken_burns |-> FALSE,
     ass_file_generated |-> FALSE,
     final_shot_video_generated |-> FALSE]

\* models.py:254-295  a Blueprint as the authoring step leaves it.
NewBlueprint(kinds) ==
    [shots |-> [s \in Shots |-> NewShot(s, kinds[s])],
     final_shots_videos_generated |-> FALSE]

InitialFiles(kinds) ==
    {SourceAsset(s) : s \in {t \in Shots : kinds[t] # "no_asset"}}
    \cup {AudioFile(s) :
            s \in {t \in Shots : kinds[t] \notin {"no_audio", "audio_missing"}}}
    \cup {TimestampFile(AudioFile(s)) :
            s \in {t \in Shots : kinds[t] \notin {"no_audio", "no_json"}}}

\* No caption stage and no trajectory under study.
CapIdle == [stage |-> "off"]

EzIdle == [stage |-> "off"]

\* No sandbox manager and no narration client under study.
DkIdle == [stage |-> "off"]

TtsIdle == [stage |-> "off"]

\* The project as the authoring step leaves it.
NewProject(kinds) ==
        /\ disk = NewBlueprint(kinds)
        /\ files = InitialFiles(kinds)
        /\ wordless = {TimestampFile(AudioFile(s)) :
                          s \in {t \in Shots : kinds[t] = "no_words"}}
        /\ mem = NewBlueprint(kinds)
        /\ pc = "idle"
        /\ i = 1
        /\ result = "none"
        /\ entry = NewBlueprint(kinds)
        /\ started = {}
        /\ first = [s \in Shots |-> "none"]
        /\ completed = {}
        /\ prior = {}
        /\ failure = NoFailure
        /\ rerun = FALSE
        /\ afterKill = FALSE
        /\ envFailed = FALSE
        /\ motionFailed = 0
        /\ inconsistent = FALSE
        /\ removed = {}

Init ==
    /\ \E kinds \in [Shots -> ShotKinds] : NewProject(kinds)
    /\ pj = [stage |-> "off"]
    /\ rt = [stage |-> "off"]
    /\ cap = CapIdle
    /\ ez = EzIdle
    /\ dk = DkIdle
    /\ tts = TtsIdle

\* ---------------------------------------------------------------------------
\* The functions the shot loop calls.
\* ---------------------------------------------------------------------------

\* _apply_ken_burns_and_audio without the test for the asset file.
ApplyKenBurnsUncheckedAsset(shot, fs, ffmpegOk) ==
    IF ffmpegOk
    THEN [ok |-> TRUE, invoked |-> TRUE,
          shot |-> [shot EXCEPT !.asset_path = AnimatedPath(shot.asset_path),
                                !.applyed_ken_burns = TRUE],
          files |-> fs \cup {AnimatedPath(shot.asset_path)}]
    ELSE [ok |-> FALSE, invoked |-> TRUE, shot |-> shot, files |-> fs]

\* _apply_ken_burns_and_audio with the exit status of the render ignored.
ApplyKenBurnsIgnoringStatus(shot, fs, ffmpegOk) ==
    IF shot.asset_path \notin fs
    THEN [ok |-> FALSE, invoked |-> FALSE, shot |-> shot, files |-> fs]
    ELSE [ok |-> TRUE, invoked |-> TRUE,
          shot |-> [shot EXCEPT !.asset_path = AnimatedPath(shot.asset_path),
                                !.applyed_ken_burns = TRUE],
          files |-> fs \cup {AnimatedPath(shot.asset_path)}]

\* EffectManager.py:84-207  _apply_ken_burns_and_audio(shot).  ffmpegOk is the
\* outcome of the external render: exit status 0, against a non-zero status or
\* an exception raised on the way.  A missing narration audio file only turns
\* the audio input off (lines 142-145, 158-162); it does not change the result.
ApplyKenBurnsAndAudio(shot, fs, ffmpegOk) ==
    IF shot.asset_path \notin fs
    THEN [ok |-> FALSE, invoked |-> FALSE, shot |-> shot, files |-> fs]
    ELSE IF ffmpegOk
    THEN [ok |-> TRUE, invoked |-> TRUE,
          shot |-> [shot EXCEPT !.asset_path = AnimatedPath(shot.asset_path),
                                !.applyed_ken_burns = TRUE],
          files |-> fs \cup {AnimatedPath(shot.asset_path)}]
    ELSE [ok |-> FALSE, invoked |-> TRUE, shot |-> shot, files |-> fs]

\* EffectManager.py:456-459  what the loop records for the shot after a
\* successful motion render, just before it rewrites the blueprint.
MotionRecord(shot, n) ==
    [shot EXCEPT !.applyed_ken_burns = TRUE, !.asset_path = OutputPath(n)]

\* _create_ass_file_for_shot without the tests for a missing timestamp file.
CreateAssFileUnchecked(timestamp_file, fs, wl, writeOk) ==
    IF timestamp_file \in wl THEN NoPath
    ELSE IF ~writeOk THEN NoPath
    ELSE AssPath(timestamp_file)

\* EffectManager.py:261-406  _create_ass_file_for_shot(timestamp_file, dir):
\* the path of the subtitle document written, or NoPath for None.  writeOk is
\* the outcome of writing the document (IOError, lines 398-406).
CreateAssFileForShot(timestamp_file, fs, wl, writeOk) ==
    IF timestamp_file = NoPath THEN NoPath
    ELSE IF timestamp_file \notin fs THEN NoPath
    ELSE IF timestamp_file \in wl THEN NoPath
    ELSE IF ~writeOk THEN NoPath
    ELSE AssPath(timestamp_file)

\* The caption stage setting the flag of the composite stage by mistake.
CaptionRecordWrongFlag(shot, ass_file_path) ==
    [shot EXCEPT !.final_shot_video_generated = TRUE,
                 !.ass_file_path = ass_file_path]

\* EffectManager.py:485-486
CaptionRecord(shot, ass_file_path) ==
    [shot EXCEPT !.ass_file_generated = TRUE, !.ass_file_path = ass_file_path]

\* EffectManager.py:513-514
CompositeRecord(shot, n) ==
    [shot EXCEPT !.asset_path = OutputPath(n),
                 !.final_shot_video_generated = TRUE]

\* The test passing over a shot as soon as its motion render is recorded.
AlreadyFinalOrAnimated(shot) ==
    shot.final_shot_video_generated \/ shot.applyed_ken_burns

\* EffectManager.py:441  the test that lets the loop pass over a shot.
AlreadyFinal(shot) == shot.final_shot_video_generated

\* ---------------------------------------------------------------------------
\* Steps of a run.
\* ---------------------------------------------------------------------------

\* `return False` out of the shot loop: nothing is written.
ReturnFalse(cause, env) ==
    /\ pc' = "idle"
    /\ result' = "fail"
    /\ failure' = [shot |-> i, cause |-> cause]
    /\ envFailed' = (envFailed \/ env)
    /\ UNCHANGED <<disk, files, mem, i, completed>>

Start(n, stage) ==
    /\ started' = started \cup {<<n, stage>>}
    /\ first' = IF first[n] = "none" THEN [first EXCEPT ![n] = stage] ELSE first

\* EffectManager.py:421-432  the run loads the blueprint from the disk.
StartRun ==
    /\ UNCHANGED others
    /\ pc = "idle"
    /\ mem' = disk
    /\ i' = 1
    /\ pc' = "shot"
    /\ result' = "none"
    /\ entry' = disk
    /\ started' = {}
    /\ first' = [s \in Shots |-> "none"]
    /\ prior' = completed
    /\ failure' = NoFailure
    /\ rerun' = (rerun \/ result \in {"fail", "killed"})
    /\ afterKill' = (result = "killed")
    /\ envFailed' = FALSE
    /\ motionFailed' = 0
    /\ inconsistent' = (\E s \in Shots :
                            /\ disk.shots[s].final_shot_video_generated
                            /\ disk.shots[s].asset_path \notin files)
    /\ UNCHANGED <<disk, files, wordless, completed, removed>>

\* EffectManager.py:436-443  a shot that is already final is passed over.
SkipFinalShot ==
    /\ UNCHANGED others
    /\ pc = "shot"
    /\ i <= NShots
    /\ AlreadyFinal(mem.shots[i])
    /\ i' = i + 1
    /\ UNCHANGED <<disk, files, wordless, mem, pc, result, started, first,
                   completed, failure, envFailed, motionFailed, removed>>
    /\ UNCHANGED hist

\* EffectManager.py:447-463  motion stage of a shot not yet animated: the
\* render, the shot record and the blueprint rewrite.
MotionStage ==
    /\ UNCHANGED others
    /\ pc = "shot"
    /\ i <= NShots
    /\ ~AlreadyFinal(mem.shots[i])
    /\ ~mem.shots[i].applyed_ken_burns
    /\ Start(i, "motion")
    /\ \E ffmpegOk \in BOOLEAN :
        LET r == ApplyKenBurnsAndAudio(mem.shots[i], files, ffmpegOk)
            bp == [mem EXCEPT !.shots[i] = MotionRecord(r.shot, i)]
        IN  /\ motionFailed' = IF r.invoked /\ ~ffmpegOk THEN i
                                ELSE motionFailed
            /\ IF r.ok /\ r.shot.asset_path \in r.files
               THEN /\ mem' = bp
                    /\ disk' = bp
                    /\ files' = r.files
                    /\ completed' = completed \cup {<<i, "motion">>}
                    /\ pc' = "captions"
                    /\ UNCHANGED <<i, result, failure, envFailed>>
               ELSE ReturnFalse(IF r.invoked THEN "ffmpeg"
                                ELSE "asset_missing", r.invoked)
    /\ UNCHANGED <<wordless, removed>>
    /\ UNCHANGED hist

\* EffectManager.py:465-473  motion stage of a shot already animated: the
\* clip is loaded from the recorded asset path.
LoadAnimatedClip ==
    /\ UNCHANGED others
    /\ pc = "shot"
    /\ i <= NShots
    /\ ~AlreadyFinal(mem.shots[i])
    /\ mem.shots[i].applyed_ken_burns
    /\ IF mem.shots[i].asset_path \in files
       THEN /\ pc' = "captions"
            /\ UNCHANGED <<disk, files, mem, i, result, completed, failure,
                           envFailed>>
       ELSE ReturnFalse("load", FALSE)
    /\ UNCHANGED <<wordless, started, first, motionFailed, removed>>
    /\ UNCHANGED hist

\* EffectManager.py:475-494  caption stage.
CaptionStage ==
    /\ UNCHANGED others
    /\ pc = "captions"
    /\ IF ~mem.shots[i].ass_file_generated
       THEN /\ Start(i, "captions")
            /\ \E writeOk \in BOOLEAN :
                LET ass == CreateAssFileForShot(
                               TimestampFile(mem.shots[i].audio_path),
                               files, wordless, writeOk)
                    bp == [mem EXCEPT !.shots[i] = CaptionRecord(@, ass)]
                    readable == CreateAssFileForShot(
                                    TimestampFile(mem.shots[i].audio_path),
                                    files, wordless, TRUE) # NoPath
                IN  IF ass = NoPath
                    THEN ReturnFalse("captions", readable)
                    ELSE /\ mem' = bp
                         /\ disk' = bp
                         /\ files' = files \cup {ass}
                         /\ completed' = completed \cup {<<i, "captions">>}
                         /\ pc' = "composite"
                         /\ UNCHANGED <<i, result, failure, envFailed>>
       ELSE /\ pc' = "composite"
            /\ UNCHANGED <<disk, files, mem, i, result, started, first,
                           completed, failure, envFailed>>
    /\ UNCHANGED <<wordless, motionFailed, removed>>
    /\ UNCHANGED hist

\* EffectManager.py:496-520  composite stage: resize, burn in the subtitle
\* document, mux the audio, write the per-shot video.  The shot record changes
\* in memory only; the loop goes on to the next shot.
CompositeStage ==
    /\ UNCHANGED others
    /\ pc = "composite"
    /\ Start(i, "composite")
    /\ \E writeOk \in BOOLEAN :
        IF writeOk /\ mem.shots[i].ass_file_path \in files
        THEN /\ files' = files \cup {OutputPath(i)}
             /\ mem' = [mem EXCEPT !.shots[i] = CompositeRecord(@, i)]
             /\ completed' = completed \cup {<<i, "composite">>}
             /\ i' = i + 1
             /\ pc' = "shot"
             /\ UNCHANGED <<disk, result, failure, envFailed>>
        ELSE ReturnFalse("composite", TRUE)
    /\ UNCHANGED <<wordless, motionFailed, removed>>
    /\ UNCHANGED hist

\* EffectManager.py:523-526  after the last shot.
FinishRun ==
    /\ UNCHANGED others
    /\ pc = "shot"
    /\ i > NShots
    /\ mem' = [mem EXCEPT !.final_shots_videos_generated = TRUE]
    /\ disk' = mem'
    /\ pc' = "idle"
    /\ result' = "ok"
    /\ UNCHANGED <<files, wordless, i, started, first, completed, failure,
                   envFailed, motionFailed, removed>>
    /\ UNCHANGED hist

\* The process is killed between two stages; its memory is lost.
Kill ==
    /\ UNCHANGED others
    /\ pc # "idle"
    /\ pc' = "idle"
    /\ result' = "killed"
    /\ UNCHANGED <<disk, files, wordless, mem, i, started, first, completed,
                   failure, envFailed, motionFailed, removed>>
    /\ UNCHANGED hist

\* Somebody deletes an artifact of the pipeline while no run is active.
RemoveArtifact ==
    /\ UNCHANGED others
    /\ pc = "idle"
    /\ \E p \in {q \in files : q[1] \in {"animated", "ass", "output"}} :
        /\ files' = files \ {p}
        /\ removed' = removed \cup {p}
    /\ UNCHANGED <<disk, wordless, mem, pc, i, result, started, first,
                   completed, failure, envFailed, motionFailed>>
    /\ UNCHANGED hist

Next ==
    \/ StartRun
    \/ SkipFinalShot
    \/ MotionStage
    \/ LoadAnimatedClip
    \/ CaptionStage
    \/ CompositeStage
    \/ FinishRun
    \/ Kill

Spec == Init /\ [][Next]_vars

\* The same pipeline in a project directory where artifacts can disappear.
NextEnv == Next \/ RemoveArtifact

SpecEnv == Init /\ [][NextEnv]_vars

\* ---------------------------------------------------------------------------
\* Properties of the shot stage pipeline.
\* ---------------------------------------------------------------------------

\* The run has dealt with shot s: it went past it, or left its caption stage,
\* or returned False while working on it.
Handled(s) ==
    \/ i > s
    \/ i = s /\ pc = "composite"
    \/ i = s /\ pc = "idle" /\ result = "fail"

\* Shot s was loaded with the motion flag set and the caption flag clear.
ResumesAtCaptions(s) ==
    /\ entry.shots[s].applyed_ken_burns
    /\ ~entry.shots[s].ass_file_generated

\* C1: a run that finds a shot with applyed_ken_burns = true and
\* ass_file_generated = false on disk never invokes the motion render for
\* that shot, and the first stage it executes for the shot is caption
\* generation.
C1_ResumeStartsAtCaptions ==
    \A s \in Shots :
        ResumesAtCaptions(s) =>
            /\ <<s, "motion">> \notin started
            /\ Handled(s) => first[s] = "captions"

\* C2: a run restarted from the blueprint on disk after a kill executes no
\* stage for a shot that had completed for that shot before the kill.
C2_NoCompletedStageRedone ==
    afterKill => started \cap prior = {}

\* C3: in every blueprint state on disk each completion flag that is true has
\* its artifact on disk at the recorded path.
C3_WriteThenFlag ==
    \A s \in Shots :
        /\ disk.shots[s].applyed_ken_burns =>
               disk.shots[s].asset_path \in files
        /\ disk.shots[s].ass_file_generated =>
               disk.shots[s].ass_file_path \in files
        /\ disk.shots[s].final_shot_video_generated =>
               disk.shots[s].asset_path \in files

\* Every shot has its narration audio, a readable alignment document with
\* words, and its source asset.
InputsPresent ==
    \A s \in Shots :
        /\ SourceAsset(s) \in files
        /\ disk.shots[s].audio_path = AudioFile(s)
        /\ AudioFile(s) \in files
        /\ TimestampFile(AudioFile(s)) \in files \ wordless

\* C4: a re-run after a killed or failed run, with all input files present
\* and every external call succeeding, does not end in failure: it ends with
\* every shot final and final_shots_videos_generated = true.
C4_SafeToResume ==
    (pc = "idle" /\ result # "none" /\ rerun /\ InputsPresent /\ ~envFailed)
        => /\ result \in {"ok", "killed"}
           /\ result = "ok" =>
                /\ disk.final_shots_videos_generated
                /\ \A s \in Shots : disk.shots[s].final_shot_video_generated

\* C5: once the motion render has succeeded for a shot, the blueprint on disk
\* has applyed_ken_burns = true for it and, until the composite stage rewrites
\* it, asset_path equal to the <asset stem>_animated.mp4 file of the render.
C5_MotionRecordOnDisk ==
    \A s \in Shots :
        (<<s, "motion">> \in completed /\ <<s, "composite">> \notin completed)
            => /\ disk.shots[s].applyed_ken_burns
               /\ disk.shots[s].asset_path = AnimatedPath(SourceAsset(s))

\* C6: when the external motion render fails for a shot, the run returns
\* failure at once (no later stage is started) and the blueprint on disk is
\* unchanged for the shot: applyed_ken_burns is false and asset_path is the
\* source asset.
C6_MotionFailureLeavesShot ==
    motionFailed # 0 =>
        /\ pc = "idle"
        /\ result = "fail"
        /\ failure.shot = motionFailed
        /\ disk.shots[motionFailed] = entry.shots[motionFailed]
        /\ ~disk.shots[motionFailed].applyed_ken_burns
        /\ disk.shots[motionFailed].asset_path = SourceAsset(motionFailed)
        /\ \A x \in started :
               x[1] < motionFailed \/ x = <<motionFailed, "motion">>

\* C6 happens: the render of the second shot failed after the first shot went
\* through all its stages.
C6_Witness ==
    /\ motionFailed = NShots
    /\ result = "fail"
    /\ <<1, "composite">> \in started
    /\ ~disk.shots[motionFailed].applyed_ken_burns

\* Shot s has no audio path, or no alignment document next to its audio.
NoCaptionInput(s) ==
    \/ disk.shots[s].audio_path = NoPath
    \/ TimestampFile(disk.shots[s].audio_path) \notin files

C8_ResumeInconsistencyReported ==
    (inconsistent /\ pc = "idle") => result \in {"fail", "killed"}

\* Every completion flag set in memory is in the blueprint on disk.
FlagsPersisted ==
    \A s \in Shots :
        /\ mem.shots[s].applyed_ken_burns => disk.shots[s].applyed_ken_burns
        /\ mem.shots[s].ass_file_generated => disk.shots[s].ass_file_generated
        /\ mem.shots[s].final_shot_video_generated =>
               disk.shots[s].final_shot_video_generated

\* C9: whenever a stage is started, every completion flag set so far is in
\* the blueprint on disk.
C9_FlagPersistedBeforeNextStage ==
    [][(pc # "idle" /\ started' # started) => FlagsPersisted]_vars

\* C10: when a run fails on shot k, no stage was started for a shot after k
\* and every shot before k whose composite render completed is final in the
\* blueprint on disk.
C10_FailureKeepsCompletedShots ==
    (pc = "idle" /\ result = "fail") =>
        /\ \A x \in started : x[1] <= failure.shot
        /\ \A s \in Shots :
               (s < failure.shot /\ <<s, "composite">> \in completed)
                   => disk.shots[s].final_shot_video_generated

\* C11: in every blueprint state on disk, reached from a blueprint with all
\* shot flags false, final_shot_video_generated implies ass_file_generated
\* and ass_file_generated implies applyed_ken_burns.
C11_StageOrder ==
    \A s \in Shots :
        /\ disk.shots[s].final_shot_video_generated =>
               disk.shots[s].ass_file_generated
        /\ disk.shots[s].ass_file_generated =>
               disk.shots[s].applyed_ken_burns

\* C11 happens: the disk holds a shot with its three flags set while another
\* shot has the motion flag only.
C11_Witness ==
    /\ disk.shots[1].final_shot_video_generated
    /\ disk.shots[NShots].applyed_ken_burns
    /\ ~disk.shots[NShots].ass_file_generated

\* ---------------------------------------------------------------------------
\* Caption Synthesizer: _create_ass_file_for_shot on the content of one
\* alignment document, and the caption stage of the loop around it.
\*
\* Times are integers, in thirds of a centisecond, so that the truncation of
\* the highlight codes and the rounding of the event times both show and no
\* time lies halfway between two centiseconds.  Indices are 1-based.
\* ---------------------------------------------------------------------------

\* Longest character stream drawn as input.
MaxChars == 5

Max2(a, b) == IF a >= b THEN a ELSE b

Min2(a, b) == IF a <= b THEN a ELSE b

\* Python int(): truncation towards zero, of x / d.
TruncDiv(x, d) == IF x >= 0 THEN x \div d ELSE -((-x) \div d)

\* A sign slip in the end index of a word.
WordEndIndexSlip(k) == k + 1

\* EffectManager.py:301  word_end_indices.append(i - 1), k the index of the
\* space that ends the word.
WordEndIndex(k) == k - 1

RECURSIVE SegmentWords(_, _, _)
\* EffectManager.py:285-309  the character loop and the closing of the last
\* word.  st holds words (with their first and last index), current_word and
\* current_start.
SegmentWords(chars, k, st) ==
    IF k > Len(chars)
    THEN IF st.current_word # <<>>
         THEN Append(st.words, [word |-> st.current_word,
                                start_idx |-> st.current_start,
                                end_idx |-> Len(chars)])
         ELSE st.words
    ELSE IF chars[k] # " "
    THEN SegmentWords(chars, k + 1,
             [st EXCEPT !.current_word = Append(@, chars[k]),
                        !.current_start =
                            IF st.current_word = <<>> THEN k ELSE @])
    ELSE IF st.current_word # <<>>
    THEN SegmentWords(chars, k + 1,
             [words |-> Append(st.words, [word |-> st.current_word,
                                          start_idx |-> st.current_start,
                                          end_idx |-> WordEndIndex(k)]),
              current_word |-> <<>>,
              current_start |-> 0])
    ELSE SegmentWords(chars, k + 1, st)

\* EffectManager.py:286-290  the loop starts with no word.
Segmentation(chars) ==
    SegmentWords(chars, 1,
                 [words |-> <<>>, current_word |-> <<>>, current_start |-> 0])

\* EffectManager.py:311-320  word-level timestamps; an index outside one of
\* the time arrays raises IndexError (raised).
WordTimestamps(seg, starts, ends) ==
    IF \E n \in DOMAIN seg : \/ seg[n].start_idx \notin DOMAIN starts
                             \/ seg[n].end_idx \notin DOMAIN ends
    THEN [raised |-> TRUE, words |-> <<>>]
    ELSE [raised |-> FALSE,
          words |-> [n \in DOMAIN seg |->
                        [word |-> seg[n].word,
                         start |-> starts[seg[n].start_idx],
                         end |-> ends[seg[n].end_idx]]]]

\* The test for an empty word list left out.
NoWordsIgnored(word_timestamps) == FALSE

\* EffectManager.py:322-324  if not word_timestamps: return None
NoWords(word_timestamps) == word_timestamps = <<>>

\* EffectManager.py:344-351  format_ass_time: hours, minutes and the seconds
\* with two decimals (here in centiseconds, rounded to the nearest).
FormatAssTime(t) ==
    LET seconds == IF t < 0 THEN 0 ELSE t
    IN  [h |-> seconds \div (3600 * 300),
         m |-> (seconds % (3600 * 300)) \div (60 * 300),
         cs |-> ((seconds % (60 * 300)) + 1) \div 3]

\* The highlight code without its floor at zero.
DurationCsUnfloored(from, to) == TruncDiv(to - from, 3)

\* EffectManager.py:377, 380  max(0, int((to - from) * 100))
DurationCs(from, to) == Max2(0, TruncDiv(to - from, 3))

\* EffectManager.py:355
ChunkSize == 2

\* The slice taking one word too many.
ChunkAtOneMore(word_timestamps, k) ==
    SubSeq(word_timestamps, k, Min2(k + ChunkSize, Len(word_timestamps)))

\* EffectManager.py:357  word_timestamps[i:i + chunk_size]
ChunkAt(word_timestamps, k) ==
    SubSeq(word_timestamps, k, Min2(k + ChunkSize - 1, Len(word_timestamps)))

\* EffectManager.py:369-382  the karaoke parts of one chunk.
KaraokeParts(chunk) ==
    [j \in DOMAIN chunk |->
        [k |-> IF j < Len(chunk)
               THEN DurationCs(chunk[j].start, chunk[j + 1].start)
               ELSE DurationCs(chunk[j].start, chunk[j].end),
         word |-> chunk[j].word]]

\* EffectManager.py:362-391  the dialogue event of one chunk.
DialogueLine(chunk) ==
    [start_time |-> chunk[1].start,
     end_time |-> chunk[Len(chunk)].end,
     start |-> FormatAssTime(chunk[1].start),
     end |-> FormatAssTime(chunk[Len(chunk)].end),
     parts |-> KaraokeParts(chunk)]

RECURSIVE DialogueLines(_, _)
\* EffectManager.py:354-391  for i in range(0, len(word_timestamps), chunk_size)
DialogueLines(word_timestamps, k) ==
    IF k > Len(word_timestamps) THEN <<>>
    ELSE <<DialogueLine(ChunkAt(word_timestamps, k))>>
         \o DialogueLines(word_timestamps, k + ChunkSize)

\* EffectManager.py:285-406  _create_ass_file_for_shot on a readable alignment
\* document: the document written, None, or the exception raised.
CreateAssDocument(align, writeOk) ==
    LET seg == Segmentation(align.characters)
        wt == WordTimestamps(seg, align.character_start_times_seconds,
                             align.character_end_times_seconds)
    IN  IF wt.raised
        THEN [kind |-> "raise", seg |-> seg, wt |-> <<>>, events |-> <<>>]
        ELSE IF NoWords(wt.words)
        THEN [kind |-> "none", seg |-> seg, wt |-> wt.words, events |-> <<>>]
        ELSE IF ~writeOk
        THEN [kind |-> "none", seg |-> seg, wt |-> wt.words, events |-> <<>>]
        ELSE [kind |-> "doc", seg |-> seg, wt |-> wt.words,
              events |-> DialogueLines(wt.words, 1)]

\* ---------------------------------------------------------------------------
\* Alignment documents drawn as input.
\* ---------------------------------------------------------------------------

Alignment(chars, starts, ends) ==
    [characters |-> chars,
     character_start_times_seconds |-> starts,
     character_end_times_seconds |-> ends]

StringsUpTo(alphabet, n) == UNION {[1..m -> alphabet] : m \in 0..n}

\* Uniform timing: every character lasts 4 ticks and follows the one before.
UniformStarts(n) == [k \in 1..n |-> (k - 1) * 4]

UniformEnds(n) == [k \in 1..n |-> k * 4]

\* The lengths of a time array one shorter, as long, or one longer than a
\* stream of n characters.
LengthsNear(n) == {m \in {n - 1, n, n + 1} : m >= 0}

\* Any stream of at most max characters out of three, uniform timing, the time arrays one
\* shorter, as long, or one longer than the stream.
ShapeInputs(max) ==
    UNION {{Alignment(chars, UniformStarts(ls), UniformEnds(le)) :
               ls \in LengthsNear(Len(chars)),
               le \in LengthsNear(Len(chars))} :
           chars \in StringsUpTo({" ", "a", "b"}, max)}

\* Per character <<gap after the end of the character before, duration>>:
\* following on, starting before the one before has ended, and running
\* backwards.
TimingMenu == {<<0, 4>>, <<-3, 4>>, <<-9, -1>>}

RECURSIVE EndAt(_, _)
EndAt(menu, k) ==
    IF k = 0 THEN 0 ELSE EndAt(menu, k - 1) + menu[k][1] + menu[k][2]

StartAt(menu, k) == EndAt(menu, k - 1) + menu[k][1]

\* Streams of letters and spaces, time arrays as long as the stream, every
\* combination of the timings of the menu.
TimingInputs(max) ==
    UNION {{Alignment(chars, [k \in 1..n |-> StartAt(menu, k)],
                      [k \in 1..n |-> EndAt(menu, k)]) :
               chars \in [1..n -> {" ", "a"}], menu \in [1..n -> TimingMenu]} :
           n \in 0..max}

\* The example of the specification, with uniform timing.
HiThereNow ==
    <<"h", "i", " ", "t", "h", "e", "r", "e", " ", "n", "o", "w">>

ExampleInputs ==
    {Alignment(HiThereNow, UniformStarts(Len(HiThereNow)),
               UniformEnds(Len(HiThereNow)))}

AlignmentInputs(max) ==
    ShapeInputs(max) \cup TimingInputs(max) \cup ExampleInputs

\* ---------------------------------------------------------------------------
\* The caption stage on one alignment document.
\* ---------------------------------------------------------------------------

InitCaptions ==
    /\ NewProject([s \in Shots |-> "full"])
    /\ pj = [stage |-> "off"]
    /\ rt = [stage |-> "off"]
    /\ ez = EzIdle
    /\ dk = DkIdle
    /\ tts = TtsIdle
    /\ \E align \in AlignmentInputs(MaxChars), writeOk \in BOOLEAN :
        cap = [stage |-> "pending", align |-> align, writeOk |-> writeOk,
               seg |-> <<>>, wt |-> <<>>, events |-> <<>>, written |-> FALSE,
               ass_file_generated |-> FALSE, returned |-> "none"]

\* EffectManager.py:475-490, 518-520  the caption stage for a shot whose
\* alignment document is readable: the document is written and the flag set,
\* or the run returns False (on None, and on an exception).
SynthesizeCaptions ==
    /\ cap.stage = "pending"
    /\ LET r == CreateAssDocument(cap.align, cap.writeOk)
       IN  cap' = [cap EXCEPT !.stage = "done",
                              !.seg = r.seg,
                              !.wt = r.wt,
                              !.events = r.events,
                              !.written = (r.kind = "doc"),
                              !.ass_file_generated = (r.kind = "doc"),
                              !.returned = IF r.kind = "doc" THEN "next"
                                           ELSE "false"]
    /\ UNCHANGED <<pipeline, ez, dk, tts, pj, rt>>

NextCaptions == SynthesizeCaptions

SpecCaptions == InitCaptions /\ [][NextCaptions]_vars

\* ---------------------------------------------------------------------------
\* Properties of the Caption Synthesizer.
\* ---------------------------------------------------------------------------

\* chars[a..b] is a maximal run of non-space characters.
IsRun(chars, a, b) ==
    /\ a <= b
    /\ \A k \in a..b : chars[k] # " "
    /\ a = 1 \/ chars[a - 1] = " "
    /\ b = Len(chars) \/ chars[b + 1] = " "

Runs(chars) ==
    {r \in (1..Len(chars)) \X (1..Len(chars)) : IsRun(chars, r[1], r[2])}

\* The texts of the words of a dialogue event.
EventWords(event) == [j \in DOMAIN event.parts |-> event.parts[j].word]

C13_WordsAreMaximalRuns ==
    cap.stage = "done" =>
        LET chars == cap.align.characters
            seg == cap.seg
        IN  /\ {<<seg[n].start_idx, seg[n].end_idx>> : n \in DOMAIN seg}
                   = Runs(chars)
            /\ Len(seg) = Cardinality(Runs(chars))
            /\ \A n \in DOMAIN seg :
                   /\ seg[n].word =
                          SubSeq(chars, seg[n].start_idx, seg[n].end_idx)
                   /\ n < Len(seg) => seg[n].end_idx < seg[n + 1].start_idx
            /\ cap.returned = "next" =>
                   /\ Len(cap.wt) = Len(seg)
                   /\ \A n \in DOMAIN seg :
                        /\ cap.wt[n].word = seg[n].word
                        /\ cap.wt[n].start =
                             cap.align.character_start_times_seconds[
                                 seg[n].start_idx]
                        /\ cap.wt[n].end =
                             cap.align.character_end_times_seconds[
                                 seg[n].end_idx]

\* C13 happens: a stream with a leading space, a repeated space and a last
\* word not followed by a space went through the stage.
C13_Witness ==
    /\ cap.stage = "done"
    /\ cap.returned = "next"
    /\ cap.align.characters = <<" ", "a", " ", " ", "b">>
    /\ Len(cap.wt) = 2

\* The time the highlight code of part j of event c stands for: up to the
\* reveal_start of the next word of the chunk, or for the last word of the
\* chunk up to its own reveal_end.
HighlightSpan(c, j) ==
    LET n == 2 * (c - 1) + j
    IN  IF j < Len(cap.events[c].parts)
        THEN cap.wt[n + 1].start - cap.wt[n].start
        ELSE cap.wt[n].end - cap.wt[n].start

\* C14: each highlight code is its span in whole centiseconds, truncated, and
\* zero when the span is negative.
C14_KaraokeDurations ==
    (cap.stage = "done" /\ cap.written) =>
        \A c \in DOMAIN cap.events :
            \A j \in DOMAIN cap.events[c].parts :
                LET k == cap.events[c].parts[j].k
                    span == HighlightSpan(c, j)
                IN  /\ k >= 0
                    /\ span <= 0 => k = 0
                    /\ span >= 0 => (3 * k <= span /\ span < 3 * k + 3)

\* C14 happens: a document with a two-word chunk whose first code is floored
\* at zero and whose last code is truncated.
C14_Witness ==
    /\ cap.stage = "done"
    /\ cap.written
    /\ \E c \in DOMAIN cap.events :
        /\ Len(cap.events[c].parts) = 2
        /\ HighlightSpan(c, 1) < 0
        /\ HighlightSpan(c, 2) % 3 # 0
        /\ cap.events[c].parts[2].k >= 1

\* C15: an alignment without words (no characters, or spaces only) fails the
\* caption stage: no document is written, ass_file_generated is not set and
\* the run returns failure.
C15_NoWordsFails ==
    (cap.stage = "done" /\ Runs(cap.align.characters) = {}) =>
        /\ ~cap.written
        /\ ~cap.ass_file_generated
        /\ cap.returned = "false"

\* C15 happens: a stream of spaces with time arrays of its length, and a
\* document write that would have succeeded.
C15_Witness ==
    /\ cap.stage = "done"
    /\ cap.align.characters = <<" ", " ">>
    /\ Len(cap.align.character_start_times_seconds) = 2
    /\ Len(cap.align.character_end_times_seconds) = 2
    /\ cap.writeOk
    /\ cap.returned = "false"

\* The three arrays of the alignment have one length.
EqualLengths(align) ==
    /\ Len(align.character_start_times_seconds) = Len(align.characters)
    /\ Len(align.character_end_times_seconds) = Len(align.characters)

\* C16: when the three alignment arrays do not have the same length the
\* caption stage fails: no document is written, ass_file_generated not set.
C16_MismatchFails ==
    (cap.stage = "done" /\ ~EqualLengths(cap.align)) =>
        /\ ~cap.written
        /\ ~cap.ass_file_generated
        /\ cap.returned = "false"

\* Each character ends no earlier than it starts, and the start times and
\* the end times are non-decreasing along the stream.
NonDecreasingTimes(align) ==
    LET st == align.character_start_times_seconds
        en == align.character_end_times_seconds
    IN  /\ EqualLengths(align)
        /\ \A k \in DOMAIN st : st[k] <= en[k]
        /\ \A k \in DOMAIN st : k < Len(st) =>
               (st[k] <= st[k + 1] /\ en[k] <= en[k + 1])

\* Moreover no character starts before the one before it has ended.
SequentialTimes(align) ==
    /\ NonDecreasingTimes(align)
    /\ \A k \in DOMAIN align.characters : k < Len(align.characters) =>
           align.character_end_times_seconds[k]
               <= align.character_start_times_seconds[k + 1]

\* Order of two formatted event times.
AssTimeLeq(x, y) ==
    \/ x.h < y.h
    \/ x.h = y.h /\ x.m < y.m
    \/ x.h = y.h /\ x.m = y.m /\ x.cs <= y.cs

\* The display window of an event ends before the next one starts.
NoChunkOverlap ==
    \A c \in DOMAIN cap.events : c < Len(cap.events) =>
        /\ cap.events[c].end_time <= cap.events[c + 1].start_time
        /\ AssTimeLeq(cap.events[c].end, cap.events[c + 1].start)

\* C17: for an alignment with equal lengths, char_start[i] <= char_end[i] and
\* times non-decreasing in i, the windows of consecutive chunks do not overlap.
C17_NoOverlap ==
    (cap.stage = "done" /\ cap.written /\ NonDecreasingTimes(cap.align))
        => NoChunkOverlap

\* C17 with the hypothesis it needs: if moreover every character starts no
\* earlier than the one before it ends, the windows do not overlap.
C17_NoOverlapSequential ==
    (cap.stage = "done" /\ cap.written /\ SequentialTimes(cap.align))
        => NoChunkOverlap

\* C17 happens: a document of several chunks from sequential times.
C17_Witness ==
    /\ cap.stage = "done"
    /\ cap.written
    /\ SequentialTimes(cap.align)
    /\ Len(cap.events) >= 2

\* ---------------------------------------------------------------------------
\* Easing library and the compiled zoom expression.
\*
\* Scales, times and progress are exact rationals <<numerator, denominator>>
\* with a positive denominator.  The duration of a shot is counted in
\* sixtieths of a second, so that int(duration_seconds * fps) truncates.
\* ---------------------------------------------------------------------------

MaxDuration == 9

Fps == 30

Zero == <<0, 1>>
One == <<1, 1>>
Two == <<2, 1>>
Half == <<1, 2>>
NoValue == <<0, 0>>

RECURSIVE GCD(_, _)
GCD(a, b) == IF b = 0 THEN a ELSE GCD(b, a % b)

\* The rational in lowest terms; a zero denominator is not a number.
RNorm(x) ==
    IF x[2] = 0 THEN <<0, 0>>
    ELSE LET g == GCD(IF x[1] < 0 THEN -x[1] ELSE x[1], x[2])
         IN  <<x[1] \div g, x[2] \div g>>

RInt(n) == <<n, 1>>
RNeg(x) == <<-x[1], x[2]>>
\* Sums and products cancel common factors before they multiply.
RAdd(x, y) ==
    IF x[2] = 0 \/ y[2] = 0 THEN <<0, 0>>
    ELSE LET g == GCD(x[2], y[2])
         IN  RNorm(<<x[1] * (y[2] \div g) + y[1] * (x[2] \div g),
                     (x[2] \div g) * y[2]>>)
RSub(x, y) == RAdd(x, RNeg(y))
RMul(x, y) ==
    IF x[2] = 0 \/ y[2] = 0 THEN <<0, 0>>
    ELSE LET a == RNorm(<<x[1], y[2]>>)
             b == RNorm(<<y[1], x[2]>>)
         IN  RNorm(<<a[1] * b[1], a[2] * b[2]>>)
RDiv(x, y) ==
    IF y[1] = 0 THEN <<0, 0>>
    ELSE IF y[1] > 0 THEN RMul(x, <<y[2], y[1]>>)
    ELSE RMul(x, <<-y[2], -y[1]>>)
REq(x, y) == x[1] * y[2] = y[1] * x[2]
RLt(x, y) == x[1] * y[2] < y[1] * x[2]
RLeq(x, y) == x[1] * y[2] <= y[1] * x[2]
RMin(x, y) == IF RLeq(x, y) THEN x ELSE y
RMax(x, y) == IF RLeq(x, y) THEN y ELSE x
RPow(x, n) == IF n = 2 THEN RMul(x, x) ELSE RMul(x, RMul(x, x))

\* The easing library.
linear(t) == t

ease_in_quad(t) == RMul(t, t)

ease_out_quad_unshifted(t) == RMul(RNeg(t), RSub(t, One))

ease_out_quad(t) == RMul(RNeg(t), RSub(t, Two))

ease_in_out_quad(t) ==
    LET t2 == RMul(t, Two)
    IN  IF RLt(t2, One)
        THEN RMul(Half, RMul(t2, t2))
        ELSE LET t1 == RSub(t2, One)
             IN  RMul(RNeg(Half), RSub(RMul(t1, RSub(t1, Two)), One))

ease_in_cubic(t) == RMul(t, RMul(t, t))

ease_out_cubic(t) ==
    LET t1 == RSub(t, One)
    IN  RAdd(RMul(t1, RMul(t1, t1)), One)

ease_in_out_cubic(t) ==
    LET t2 == RMul(t, Two)
    IN  IF RLt(t2, One)
        THEN RMul(Half, RMul(t2, RMul(t2, t2)))
        ELSE LET t0 == RSub(t2, Two)
             IN  RMul(Half, RAdd(RMul(t0, RMul(t0, t0)), Two))

EasingCurves ==
    {"linear", "ease_in_quad", "ease_out_quad", "ease_in_out_quad",
     "ease_in_cubic", "ease_out_cubic", "ease_in_out_cubic"}

EasingLibrary(easing_function, t) ==
    CASE easing_function = "linear" -> linear(t)
      [] easing_function = "ease_in_quad" -> ease_in_quad(t)
      [] easing_function = "ease_out_quad" -> ease_out_quad(t)
      [] easing_function = "ease_in_out_quad" -> ease_in_out_quad(t)
      [] easing_function = "ease_in_cubic" -> ease_in_cubic(t)
      [] easing_function = "ease_out_cubic" -> ease_out_cubic(t)
      [] easing_function = "ease_in_out_cubic" -> ease_in_out_cubic(t)
      [] OTHER -> NoValue

\* The characters of the strings in use.
Letters(s) ==
    CASE s = "linear" ->
             <<"l", "i", "n", "e", "a", "r">>
      [] s = "ease_in_quad" ->
             <<"e", "a", "s", "e", "_", "i", "n", "_", "q", "u", "a", "d">>
      [] s = "ease_out_quad" ->
             <<"e", "a", "s", "e", "_", "o", "u", "t", "_", "q", "u", "a", "d">>
      [] s = "ease_in_out_quad" ->
             <<"e", "a", "s", "e", "_", "i", "n", "_", "o", "u", "t", "_", "q", "u", "a", "d">>
      [] s = "ease_in_cubic" ->
             <<"e", "a", "s", "e", "_", "i", "n", "_", "c", "u", "b", "i", "c">>
      [] s = "ease_out_cubic" ->
             <<"e", "a", "s", "e", "_", "o", "u", "t", "_", "c", "u", "b", "i", "c">>
      [] s = "ease_in_out_cubic" ->
             <<"e", "a", "s", "e", "_", "i", "n", "_", "o", "u", "t", "_", "c", "u", "b", "i", "c">>
      [] s = "ease_out_bounce" ->
             <<"e", "a", "s", "e", "_", "o", "u", "t", "_", "b", "o", "u", "n", "c", "e">>
      [] s = "ease_in_sine" ->
             <<"e", "a", "s", "e", "_", "i", "n", "_", "s", "i", "n", "e">>
      [] s = "quadratic" ->
             <<"q", "u", "a", "d", "r", "a", "t", "i", "c">>
      [] s = "quad" ->
             <<"q", "u", "a", "d">>
      [] s = "cubic" ->
             <<"c", "u", "b", "i", "c">>
      [] s = "in_out" ->
             <<"i", "n", "_", "o", "u", "t">>
      [] s = "in" ->
             <<"i", "n">>

\* sub in s, for sequences of characters.
IsInfix(sub, s) ==
    \E k \in 0..(Len(s) - Len(sub)) : SubSeq(s, k + 1, k + Len(sub)) = sub

\* The substring tests of _generate_easing_expression: sub in easing_function.
Contains(easing_function, sub) ==
    IsInfix(Letters(sub), Letters(easing_function))

\* total_frames = int(duration_seconds * fps), the duration in sixtieths.
TotalFrames(duration_seconds, fps) == TruncDiv(duration_seconds * fps, 60)

\* The in-out curve whose second half is not mirrored.
GenerateEasingExpressionNoMirror(easing_function, total_frames, on) ==
    LET x == RDiv(RInt(on), RInt(total_frames))
    IN  IF Contains(easing_function, "in_out")
        THEN RSub(One, RMul(Half, RPow(RMul(Two, x), 2)))
        ELSE x

\* The value at frame counter on of the progress expression that
\* _generate_easing_expression returns.
GenerateEasingExpression(easing_function, total_frames, on) ==
    LET x == RDiv(RInt(on), RInt(total_frames))
        first_half == RLt(RInt(on), RDiv(RInt(total_frames), Two))
        InOut(n) ==
            IF first_half
            THEN RMul(Half, RPow(RMul(Two, x), n))
            ELSE RSub(One, RMul(Half, RPow(RMul(Two, RSub(One, x)), n)))
        In(n) == RPow(x, n)
        Out(n) == RSub(One, RPow(RSub(One, x), n))
    IN  IF easing_function = "linear" THEN x
        ELSE IF Contains(easing_function, "quad")
        THEN IF Contains(easing_function, "in_out") THEN InOut(2)
             ELSE IF Contains(easing_function, "in") THEN In(2)
             ELSE Out(2)
        ELSE IF Contains(easing_function, "cubic")
        THEN IF Contains(easing_function, "in_out") THEN InOut(3)
             ELSE IF Contains(easing_function, "in") THEN In(3)
             ELSE Out(3)
        ELSE x

\* min(start_scale + zoom_range * (progress), end_scale)
ZoomExpr(start_scale, end_scale, progress) ==
    LET zoom_range == RSub(end_scale, start_scale)
    IN  RMin(RAdd(start_scale, RMul(zoom_range, progress)), end_scale)

\* The x (or y) expression for a source of width (or height) dim:
\*   (iw/2-(iw/zoom/2)) + (start*(iw-iw/zoom))
\*       + (pan_range*(iw-iw/zoom)*(progress))
CropOriginExpr(dim, zoom, start_norm, end_norm, progress) ==
    LET pan_range == RSub(end_norm, start_norm)
        room == RSub(dim, RDiv(dim, zoom))
        base == RAdd(RSub(RDiv(dim, Two), RDiv(RDiv(dim, zoom), Two)),
                     RMul(start_norm, room))
    IN  RAdd(base, RMul(RMul(pan_range, room), progress))

\* Centers within the unit square, among them the defaults (0, 0) and
\* (0.5, 0.5).
PositionInputs ==
    {<<Zero, Zero>>, <<Half, Half>>, <<One, Zero>>, <<Zero, One>>}

\* Widths and heights of the source, landscape and portrait.
SizeInputs == {<<16, 9>>, <<9, 16>>}

\* Positive scales, among them the defaults 1.0 and 1.2.
ScaleInputs == {<<1, 2>>, <<1, 1>>, <<6, 5>>, <<2, 1>>}

\* The seven ids of KenBurnsStyle and ids outside them.
EasingInputs ==
    EasingCurves \cup {"ease_out_bounce", "ease_in_sine", "quadratic"}

\* Durations of at least one frame.
DurationInputs == {d \in 1..MaxDuration : TotalFrames(d, Fps) >= 1}

InitEasing ==
    /\ NewProject([s \in Shots |-> "full"])
    /\ pj = [stage |-> "off"]
    /\ rt = [stage |-> "off"]
    /\ cap = CapIdle
    /\ dk = DkIdle
    /\ tts = TtsIdle
    /\ \E easing_function \in EasingInputs, start_scale \in ScaleInputs,
          end_scale \in ScaleInputs, duration_seconds \in DurationInputs,
          start_position \in PositionInputs, end_position \in PositionInputs,
          size \in SizeInputs :
           ez = [stage |-> "compiled",
                 start_position |-> start_position,
                 end_position |-> end_position,
                 iw |-> size[1],
                 ih |-> size[2],
                 x |-> NoValue,
                 y |-> NoValue,
                 easing_function |-> easing_function,
                 start_scale |-> start_scale,
                 end_scale |-> end_scale,
                 total_frames |-> TotalFrames(duration_seconds, Fps),
                 on |-> -1,
                 progress |-> NoValue,
                 zoom |-> NoValue,
                 eased |-> NoValue]

\* zoompan evaluates the expressions for the next output frame; the library
\* curve is applied to the same instant t = on / total_frames.
RenderFrame ==
    /\ ez.stage = "compiled"
    /\ ez.on < ez.total_frames
    /\ LET on == ez.on + 1
           progress ==
               GenerateEasingExpression(ez.easing_function, ez.total_frames, on)
           zoom == ZoomExpr(ez.start_scale, ez.end_scale, progress)
       IN  ez' = [ez EXCEPT
                    !.on = on,
                    !.progress = progress,
                    !.zoom = zoom,
                    !.x = CropOriginExpr(RInt(ez.iw), zoom,
                                         ez.start_position[1],
                                         ez.end_position[1], progress),
                    !.y = CropOriginExpr(RInt(ez.ih), zoom,
                                         ez.start_position[2],
                                         ez.end_position[2], progress),
                    !.eased = EasingLibrary(ez.easing_function,
                                            RDiv(RInt(on),
                                                 RInt(ez.total_frames)))]
    /\ UNCHANGED <<pipeline, cap, dk, tts, pj, rt>>

NextEasing == RenderFrame

SpecEasing == InitEasing /\ [][NextEasing]_vars

\* ---------------------------------------------------------------------------
\* Properties of the zoom expression and of the easing library.
\* ---------------------------------------------------------------------------

FrameRendered == ez.stage = "compiled" /\ ez.on >= 0

\* C18: for positive scales, zoom-in and zoom-out alike, the zoom expression
\* is start_scale at progress 0 and end_scale at progress 1.
C18_ZoomEndpoints ==
    FrameRendered =>
        /\ REq(ez.progress, Zero) => REq(ez.zoom, ez.start_scale)
        /\ REq(ez.progress, One) => REq(ez.zoom, ez.end_scale)

\* C19: for positive scales, both directions, every easing id and every
\* frame counter in 0..total_frames, the zoom expression lies between the
\* smaller and the larger of the two scales.
C19_ZoomWithinScales ==
    FrameRendered =>
        /\ RLeq(RMin(ez.start_scale, ez.end_scale), ez.zoom)
        /\ RLeq(ez.zoom, RMax(ez.start_scale, ez.end_scale))

\* C19 happens: a frame in the second half of an in-out curve, zooming in,
\* with a zoom strictly between the scales.
C19_Witness ==
    /\ FrameRendered
    /\ ez.easing_function = "ease_in_out_cubic"
    /\ 2 * ez.on > ez.total_frames
    /\ RLt(ez.start_scale, ez.zoom)
    /\ RLt(ez.zoom, ez.end_scale)

\* C20: each of the seven curves of the library is 0 at t = 0, 1 at t = 1
\* and within [0, 1] in between.
C20_EasingCurves ==
    (FrameRendered /\ ez.easing_function \in EasingCurves) =>
        /\ ez.on = 0 => ez.eased[1] = 0
        /\ ez.on = ez.total_frames => ez.eased[1] = ez.eased[2]
        /\ RLeq(Zero, ez.eased)
        /\ RLeq(ez.eased, One)

\* C20 happens: the quadratic ease-out has been applied up to t = 1, an
\* inner point having been passed.
C20_Witness ==
    /\ FrameRendered
    /\ ez.easing_function = "ease_out_quad"
    /\ ez.total_frames >= 3
    /\ ez.on = ez.total_frames
    /\ REq(ez.eased, One)

\* C21: an easing id outside the seven curve ids gets the linear progress
\* on / total_frames.
C21_UnknownIdIsLinear ==
    (FrameRendered /\ ez.easing_function \notin EasingCurves) =>
        REq(ez.progress, RDiv(RInt(ez.on), RInt(ez.total_frames)))

\* C22: for the seven ids and every frame counter in 0..total_frames the
\* progress expression has the value of the library curve at
\* t = on / total_frames.
C22_ExpressionMatchesLibrary ==
    (FrameRendered /\ ez.easing_function \in EasingCurves) =>
        REq(ez.progress, ez.eased)

\* C22 happens: an inner frame of the second half of an in-out curve.
C22_Witness ==
    /\ FrameRendered
    /\ ez.easing_function = "ease_in_out_quad"
    /\ 2 * ez.on > ez.total_frames
    /\ ez.on < ez.total_frames
    /\ RLt(Half, ez.eased)
    /\ REq(ez.progress, ez.eased)

\* The crop may start anywhere from 0 up to what the zoom leaves free.
WithinSource(origin, dim, zoom) ==
    /\ RLeq(Zero, origin)
    /\ RLeq(origin, RSub(RInt(dim), RDiv(RInt(dim), zoom)))

\* C23: for centers in the unit square, a zoom of at least 1 and a progress
\* in [0, 1], 0 <= x <= iw - iw/zoom and 0 <= y <= ih - ih/zoom, and
\* x = y = 0 when the zoom is 1.
C23_CropWithinSource ==
    (FrameRendered /\ RLeq(One, ez.zoom)
        /\ RLeq(Zero, ez.progress) /\ RLeq(ez.progress, One)) =>
        /\ WithinSource(ez.x, ez.iw, ez.zoom)
        /\ WithinSource(ez.y, ez.ih, ez.zoom)
        /\ REq(ez.zoom, One) => (REq(ez.x, Zero) /\ REq(ez.y, Zero))

\* ---------------------------------------------------------------------------
\* Missing inputs of the motion stage.
\* ---------------------------------------------------------------------------

\* The step in which the motion stage of shot i is run.
MotionStageRuns ==
    /\ <<i, "motion">> \notin started
    /\ <<i, "motion">> \in started'

\* C24: when the source asset of a shot is absent as its motion stage runs,
\* the run returns failure, no render is invoked (no file appears and no
\* render fails) and the blueprint on disk is unchanged.
C24_MissingAssetAborts ==
    [][(MotionStageRuns /\ mem.shots[i].asset_path \notin files) =>
            /\ pc' = "idle"
            /\ result' = "fail"
            /\ failure'.shot = i
            /\ files' = files
            /\ motionFailed' # i
            /\ envFailed' = envFailed
            /\ disk' = disk]_vars

\* C24 happens: the run failed at the last shot for want of its asset, the
\* first shot having gone through its stages.
C24_Witness ==
    /\ result = "fail"
    /\ failure = [shot |-> NShots, cause |-> "asset_missing"]
    /\ SourceAsset(NShots) \notin files
    /\ <<1, "composite">> \in started

\* C25: when the audio path of a shot is set and the audio file is absent as
\* its motion stage runs, the run returns failure and neither
\* applyed_ken_burns nor asset_path of the shot changes.
C25_MissingAudioAborts ==
    [][(/\ MotionStageRuns
        /\ mem.shots[i].audio_path # NoPath
        /\ mem.shots[i].audio_path \notin files) =>
            /\ result' = "fail"
            /\ mem'.shots[i].applyed_ken_burns = mem.shots[i].applyed_ken_burns
            /\ mem'.shots[i].asset_path = mem.shots[i].asset_path
            /\ disk'.shots[i].applyed_ken_burns
                   = disk.shots[i].applyed_ken_burns
            /\ disk'.shots[i].asset_path = disk.shots[i].asset_path]_vars

\* ---------------------------------------------------------------------------
\* The sandbox manager (docker_sandbox.py) and the containers of the daemon.
\*
\* A manager state m has the fields of DockerSandboxManager, the containers
\* that exist on the daemon, the id the daemon gives to the next container,
\* and the value returned by the last call.  active_containers is a set of
\* <<api_key, container_id>> pairs.
\* ---------------------------------------------------------------------------

MaxContainers == 4

ApiKeys == {"key_a", "key_b"}

\* None, for a key and for a container id.
NoKey == "none"

NoContainer == 0

\* The empty string returned for a current container id of None.
EmptyId == -1

NewManager ==
    [containers |-> {},
     active_containers |-> {},
     current_container_id |-> NoContainer,
     current_api_key |-> NoKey,
     next_id |-> 1,
     ret |-> NoContainer]

ContainerIds(m) == {c.id : c \in m.containers}

ActiveKeys(m) == {a[1] : a \in m.active_containers}

ActiveId(m, api_key) ==
    (CHOOSE a \in m.active_containers : a[1] = api_key)[2]

\* container.stop(); container.remove(), and NotFound passed over.
StopAndRemove(m, container_id) ==
    [m EXCEPT !.containers = {c \in m.containers : c.id # container_id}]

\* docker_sandbox.py:56-78  client.containers.run(...) and the bookkeeping.
RunNewContainer(m, api_key) ==
    [m EXCEPT !.containers =
                  m.containers \cup {[id |-> m.next_id, key |-> api_key,
                                      status |-> "running"]},
              !.next_id = m.next_id + 1,
              !.active_containers =
                  {a \in m.active_containers : a[1] # api_key}
                      \cup {<<api_key, m.next_id>>},
              !.current_container_id = m.next_id,
              !.current_api_key = api_key,
              !.ret = m.next_id]

\* docker_sandbox.py:33-78  create_sandbox_for_api_key(api_key)
CreateSandboxForApiKey(m, api_key) ==
    IF api_key \in ActiveKeys(m)
    THEN LET container_id == ActiveId(m, api_key)
         IN  IF container_id \in ContainerIds(m)
             THEN [m EXCEPT !.containers =
                               {IF c.id = container_id
                                THEN [c EXCEPT !.status = "running"]
                                ELSE c : c \in m.containers},
                            !.ret = container_id]
             ELSE RunNewContainer(
                      [m EXCEPT !.active_containers =
                                   {a \in m.active_containers :
                                        a[1] # api_key}],
                      api_key)
    ELSE RunNewContainer(m, api_key)

\* docker_sandbox.py:80-114  switch_to_api_key(api_key)
SwitchToApiKey(m, api_key) ==
    IF api_key = m.current_api_key
    THEN [m EXCEPT !.ret = IF m.current_container_id = NoContainer
                           THEN EmptyId ELSE m.current_container_id]
    ELSE LET c == CreateSandboxForApiKey(m, api_key)
             new_container_id == c.ret
             r == IF c.current_container_id # NoContainer
                       /\ c.current_api_key # NoKey
                  THEN [StopAndRemove(c, c.current_container_id)
                            EXCEPT !.active_containers =
                                       {a \in c.active_containers :
                                            a[1] # c.current_api_key}]
                  ELSE c
         IN  [r EXCEPT !.current_container_id = new_container_id,
                       !.current_api_key = api_key,
                       !.ret = new_container_id]

\* docker_sandbox.py:136-149  cleanup() with the containers left in place.
CleanupWithoutRemove(m) ==
    [m EXCEPT !.active_containers = {},
              !.current_container_id = NoContainer,
              !.current_api_key = NoKey,
              !.ret = NoContainer]

\* docker_sandbox.py:136-149  cleanup()
Cleanup(m) ==
    [m EXCEPT !.containers =
                  {c \in m.containers :
                       c.id \notin {a[2] : a \in m.active_containers}},
              !.active_containers = {},
              !.current_container_id = NoContainer,
              !.current_api_key = NoKey,
              !.ret = NoContainer]

\* What a call leaves in dk: the manager, the call, the manager before it.
AfterCall(m, name, api_key, raised) ==
    [stage |-> "on", m |-> m, op |-> name, key |-> api_key,
     raised |-> raised, before |-> dk.m, seen |-> dk.seen \cup {name}]

InitSandbox ==
    /\ NewProject([s \in Shots |-> "full"])
    /\ pj = [stage |-> "off"]
    /\ rt = [stage |-> "off"]
    /\ cap = CapIdle
    /\ ez = EzIdle
    /\ tts = TtsIdle
    /\ dk = [stage |-> "on", m |-> NewManager, op |-> "init", key |-> NoKey,
             raised |-> FALSE, before |-> NewManager, seen |-> {}]

\* The daemon has ids left for the containers a call may create.
IdsLeft == dk.stage = "on" /\ dk.m.next_id <= MaxContainers

CallCreateSandbox ==
    /\ IdsLeft
    /\ \E api_key \in ApiKeys :
           dk' = AfterCall(CreateSandboxForApiKey(dk.m, api_key),
                           "create", api_key, FALSE)
    /\ UNCHANGED <<pipeline, cap, ez, tts, pj, rt>>

CallSwitchToApiKey ==
    /\ IdsLeft
    /\ \E api_key \in ApiKeys :
           dk' = AfterCall(SwitchToApiKey(dk.m, api_key),
                           "switch", api_key, FALSE)
    /\ UNCHANGED <<pipeline, cap, ez, tts, pj, rt>>

\* docker_sandbox.py:116-134  execute_in_sandbox(api_key, command): the
\* lookup of the container raises NotFound when it no longer exists.
CallExecuteInSandbox ==
    /\ IdsLeft
    /\ \E api_key \in ApiKeys :
           LET m == SwitchToApiKey(dk.m, api_key)
           IN  dk' = AfterCall(m, "execute", api_key,
                               m.ret \notin ContainerIds(m))
    /\ UNCHANGED <<pipeline, cap, ez, tts, pj, rt>>

CallCleanup ==
    /\ dk.stage = "on"
    /\ dk' = AfterCall(Cleanup(dk.m), "cleanup", NoKey, FALSE)
    /\ UNCHANGED <<pipeline, cap, ez, tts, pj, rt>>

NextSandbox ==
    \/ CallCreateSandbox
    \/ CallSwitchToApiKey
    \/ CallExecuteInSandbox
    \/ CallCleanup

SpecSandbox == InitSandbox /\ [][NextSandbox]_vars

\* ---------------------------------------------------------------------------
\* Properties of the sandbox manager.
\* ---------------------------------------------------------------------------

\* switch_to_api_key has just returned, called with a key that was not the
\* current one.
SwitchedKey ==
    /\ dk.stage = "on"
    /\ dk.op = "switch"
    /\ dk.before.current_api_key # dk.key

\* C26: after switch_to_api_key(k) with another or no current key, the
\* returned id is that of an existing running container holding k, it is the
\* current container of the current key k, active_containers maps k to it, and
\* the container of the key that was current is gone.
C26_SwitchGivesRunningSandbox ==
    SwitchedKey =>
        /\ [id |-> dk.m.ret, key |-> dk.key, status |-> "running"]
               \in dk.m.containers
        /\ dk.m.current_api_key = dk.key
        /\ dk.m.current_container_id = dk.m.ret
        /\ <<dk.key, dk.m.ret>> \in dk.m.active_containers
        /\ dk.before.current_api_key # NoKey =>
               dk.before.current_container_id \notin ContainerIds(dk.m)

\* C27: after cleanup(), whatever calls came before, no container made by the
\* manager exists, active_containers is empty and there is no current
\* container and no current key.
C27_CleanupRemovesAll ==
    (dk.stage = "on" /\ dk.op = "cleanup") =>
        /\ dk.m.containers = {}
        /\ dk.m.active_containers = {}
        /\ dk.m.current_container_id = NoContainer
        /\ dk.m.current_api_key = NoKey

\* C27 happens: cleanup after calls of all three kinds, with containers in
\* existence and a current key.
C27_Witness ==
    /\ dk.stage = "on"
    /\ dk.op = "cleanup"
    /\ {"create", "switch", "execute"} \subseteq dk.seen
    /\ Cardinality(dk.before.containers) >= 2
    /\ dk.before.current_api_key # NoKey
    /\ dk.m.containers = {}

\* ---------------------------------------------------------------------------
\* The narration client (tts_client.py).
\*
\* Keys are the positions 1..n_keys of the configured list.  An audio file is
\* named by the shot number and the random number of its name; call.doc is
\* the content of the alignment document the call has written next to its
\* audio file.  The outcome of the sandboxed synthesis call comes from the
\* environment.
\* ---------------------------------------------------------------------------

MaxKeys == 3

\* Two of the values random.randint(0, 9999) can give to a file name.
Suffixes == {0, 1}

\* The outcomes of one synthesis attempt: a result with alignment data, a
\* result whose alignment is null, output that is not JSON, an exception.
Outcomes == {"ok", "no_alignment", "bad_json", "error"}

Succeeds(outcome) == outcome \in {"ok", "no_alignment"}

\* The key after the current one with the cycle standing still.
NextKeyStuck(current_key, n_keys) == current_key

\* tts_client.py:45, 56  next(self._key_cycle)
NextKey(current_key, n_keys) == (current_key % n_keys) + 1

\* tts_client.py:179  audio_dir / f"{shot_number}_{hash}_{random}.mp3"
AudioPath(shot_number, suffix) == <<"mp3", shot_number, suffix>>

\* tts_client.py:254  result["alignment"] if result["alignment"] else {}
TimestampsData(outcome) == IF outcome = "ok" THEN "alignment" ELSE "empty"

NoCall ==
    [shot |-> 0, path |-> NoPath, tried |-> <<>>, status |-> "none",
     doc |-> "none"]

\* The blueprint before any narration exists.
NewTtsBlueprint ==
    [audio_path |-> [s \in Shots |-> NoPath], audio_generated |-> FALSE]

InitTts ==
    /\ NewProject([s \in Shots |-> "full"])
    /\ pj = [stage |-> "off"]
    /\ rt = [stage |-> "off"]
    /\ cap = CapIdle
    /\ ez = EzIdle
    /\ dk = DkIdle
    /\ \E n_keys \in 1..MaxKeys :
           tts = [stage |-> "on",
                  n_keys |-> n_keys,
                  current_key |-> 1,
                  disk |-> NewTtsBlueprint,
                  mem |-> NewTtsBlueprint,
                  pc |-> "idle",
                  i |-> 1,
                  result |-> "none",
                  files |-> {},
                  call |-> NoCall,
                  done |-> {},
                  left |-> {},
                  attempted |-> {}]

\* tts_client.py:92-108  generate_and_save_audio_for_project loads the
\* blueprint.  left: the shots done in the run before, when it was
\* interrupted.
TtsStartRun ==
    /\ tts.stage = "on"
    /\ tts.pc = "idle"
    /\ tts' = [tts EXCEPT
                 !.mem = tts.disk,
                 !.i = 1,
                 !.pc = "shot",
                 !.result = "none",
                 !.call = NoCall,
                 !.left = IF tts.result \in {"fail", "raised", "killed"}
                          THEN tts.done ELSE {},
                 !.done = {},
                 !.attempted = {}]
    /\ UNCHANGED <<pipeline, cap, ez, dk, pj, rt>>

\* tts_client.py:109-113  a shot that has audio is passed over.
TtsSkipShot ==
    /\ tts.stage = "on"
    /\ tts.pc = "shot"
    /\ tts.i <= NShots
    /\ tts.mem.audio_path[tts.i] # NoPath
    /\ tts' = [tts EXCEPT !.i = tts.i + 1]
    /\ UNCHANGED <<pipeline, cap, ez, dk, pj, rt>>

\* tts_client.py:129-140  what the loop does with a returned path: the shot
\* gets it, and the audio is read for its duration (readOk).
AfterReturn(t, path, readOk) ==
    LET u == [t EXCEPT !.mem.audio_path[t.i] = path]
    IN  IF readOk
        THEN [u EXCEPT !.i = t.i + 1, !.pc = "shot",
                       !.done = t.done \cup {t.i}]
        ELSE [u EXCEPT !.pc = "idle", !.result = "fail"]

\* tts_client.py:114-128, 179-184  the call of _generate_audio_for_script up
\* to the first attempt: the name is drawn, and a file of that name is
\* returned as it is.
TtsBeginScript ==
    /\ tts.stage = "on"
    /\ tts.pc = "shot"
    /\ tts.i <= NShots
    /\ tts.mem.audio_path[tts.i] = NoPath
    /\ \E suffix \in Suffixes, readOk \in BOOLEAN :
        LET path == AudioPath(tts.i, suffix)
        IN  IF path \in tts.files
            THEN tts' = AfterReturn(
                            [tts EXCEPT !.call = [shot |-> tts.i,
                                                  path |-> path,
                                                  tried |-> <<>>,
                                                  status |-> "hit",
                                                  doc |-> "none"]],
                            path, readOk)
            ELSE tts' = [tts EXCEPT !.pc = "attempts",
                                    !.call = [shot |-> tts.i,
                                              path |-> path,
                                              tried |-> <<>>,
                                              status |-> "running",
                                              doc |-> "none"]]
    /\ UNCHANGED <<pipeline, cap, ez, dk, pj, rt>>

\* tts_client.py:196-280  one turn of the loop over the keys: the sandboxed
\* call with the current key, then either the two files and the return, or
\* the next key, and the exception after the last turn.
TtsAttempt ==
    /\ tts.stage = "on"
    /\ tts.pc = "attempts"
    /\ \E outcome \in Outcomes, readOk \in BOOLEAN :
        LET tried == Append(tts.call.tried,
                            [key |-> tts.current_key, outcome |-> outcome])
            t == [tts EXCEPT !.call.tried = tried,
                             !.attempted = tts.attempted \cup {tts.i}]
        IN  IF Succeeds(outcome)
            THEN tts' = AfterReturn(
                            [t EXCEPT
                               !.files = t.files \cup {t.call.path},
                               !.call.doc = TimestampsData(outcome),
                               !.call.status = "returned"],
                            t.call.path, readOk)
            ELSE LET u == [t EXCEPT !.current_key =
                                        NextKey(t.current_key, t.n_keys)]
                 IN  IF Len(tried) = t.n_keys
                     THEN tts' = [u EXCEPT !.call.status = "raised",
                                           !.pc = "idle",
                                           !.result = "raised"]
                     ELSE tts' = u
    /\ UNCHANGED <<pipeline, cap, ez, dk, pj, rt>>

\* tts_client.py:142-151  all shots done: the blueprint is written.
TtsFinishRun ==
    /\ tts.stage = "on"
    /\ tts.pc = "shot"
    /\ tts.i > NShots
    /\ LET bp == [tts.mem EXCEPT !.audio_generated = TRUE]
       IN  tts' = [tts EXCEPT !.mem = bp, !.disk = bp,
                              !.pc = "idle", !.result = "ok"]
    /\ UNCHANGED <<pipeline, cap, ez, dk, pj, rt>>

\* The process is killed; the next one makes a new client (first key).
TtsKill ==
    /\ tts.stage = "on"
    /\ tts.pc # "idle"
    /\ tts' = [tts EXCEPT !.pc = "idle", !.result = "killed",
                          !.current_key = 1]
    /\ UNCHANGED <<pipeline, cap, ez, dk, pj, rt>>

NextTts ==
    \/ TtsStartRun
    \/ TtsSkipShot
    \/ TtsBeginScript
    \/ TtsAttempt
    \/ TtsFinishRun
    \/ TtsKill

SpecTts == InitTts /\ [][NextTts]_vars

\* ---------------------------------------------------------------------------
\* Properties of the narration client.
\* ---------------------------------------------------------------------------

\* The attempts of the call of _generate_audio_for_script under way or last
\* made.
Tried == tts.call.tried

C29_ReturnedAudioHasAlignment ==
    (tts.stage = "on" /\ tts.call.status = "returned") =>
        /\ tts.call.path \in tts.files
        /\ tts.call.doc = "alignment"

\* C30: in a run that follows a failed or killed run, no audio is synthesized
\* for a shot whose audio the interrupted run had generated.
C30_AudioNotRedone ==
    tts.stage = "on" => tts.attempted \cap tts.left = {}

\* ---------------------------------------------------------------------------
\* The order of the shots in a run of the shot loop, and shots without
\* narration.
\* ---------------------------------------------------------------------------

\* C35: shots are processed one at a time in scene order: while the run is
\* at shot i every earlier shot is final (passed over as final, or composited
\* in this run) and no stage of a later shot has started; and a step of the
\* motion or of the composite stage of a shot is taken at most once in a run.
C35_ShotsInOrder ==
    /\ [](pc # "idle" =>
            /\ \A s \in Shots : s < i => mem.shots[s].final_shot_video_generated
            /\ \A st \in started : st[1] <= i)
    /\ [][/\ MotionStage => <<i, "motion">> \notin started
          /\ CompositeStage => <<i, "composite">> \notin started]_vars

\* C35 happens: the first shot went through its three stages in this run and
\* the last shot is in its caption stage after its motion render.
C35_Witness ==
    /\ pc = "captions"
    /\ i = NShots
    /\ {<<1, "motion">>, <<1, "captions">>, <<1, "composite">>,
        <<NShots, "motion">>} \subseteq started

\* C39: for a shot without narration (audio_path unset, hence
\* duration_seconds = 0 and total_frames = 0) the motion stage is never run
\* and applyed_ken_burns is never persisted as true.
C39_NoMotionWithoutAudio ==
    \A s \in Shots :
        disk.shots[s].audio_path = NoPath =>
            /\ <<s, "motion">> \notin started
            /\ ~disk.shots[s].applyed_ken_burns

\* ---------------------------------------------------------------------------
\* The project under the commands of main.py: new, generate_audio,
\* add_effect, assemble, and run_all calling the four in turn.
\*
\* pj.disk is the blueprint document final_<version>.json (pj.exists: the
\* file is there), pj.files the paths of the project directory, pj.w the
\* processes working on the project, each with its own blueprint object, and
\* pj.at the position of run_all ("free": the commands are called one by
\* one).  new, generate_audio and assemble read the blueprint, work, and
\* write it once: one step each.  add_effect writes after every stage: one
\* step per stage.  pj.last and pj.trace record the command that returned
\* last and the commands run_all has called; pj.lost records that a rewrite
\* has cleared a flag, or changed a path, that was on the disk.
\* ---------------------------------------------------------------------------

\* run_all going on to the next command whatever the last one returned.
RunAllReturnIgnoringFailure(j, p, cmd, ok, did) ==
    LET under == p = 1 /\ j.at = cmd
        next == CASE cmd = "new" -> "generate_audio"
                  [] cmd = "generate_audio" -> "add_effect"
                  [] cmd = "add_effect" -> "assemble"
                  [] OTHER -> "end"
    IN  [j EXCEPT !.last = [cmd |-> cmd, ok |-> ok, did |-> did],
                  !.at = IF under THEN next ELSE @,
                  !.trace = IF under THEN Append(@, <<cmd, ok>>) ELSE @]

\* main.py:22-144  a command of process p returns ok, having done the things
\* in did; when run_all has called it, run_all goes on to the next command
\* or returns.
RunAllReturn(j, p, cmd, ok, did) ==
    LET under == p = 1 /\ j.at = cmd
        next == CASE cmd = "new" -> "generate_audio"
                  [] cmd = "generate_audio" -> "add_effect"
                  [] cmd = "add_effect" -> "assemble"
                  [] OTHER -> "end"
    IN  [j EXCEPT !.last = [cmd |-> cmd, ok |-> ok, did |-> did],
                  !.at = IF ~under THEN @ ELSE IF ok THEN next ELSE "end",
                  !.trace = IF under THEN Append(@, <<cmd, ok>>) ELSE @]

\* A rewrite that leaves audio_generated at its default once the shots are
\* final.
RewriteDroppingAudioFlag(j, bp) ==
    [j EXCEPT !.disk = IF bp.final_shots_videos_generated
                       THEN [bp EXCEPT !.audio_generated = FALSE]
                       ELSE bp,
              !.exists = TRUE]

\* A rewrite that keeps the flags the document on the disk has.
RewriteMerged(j, bp) ==
    LET merged ==
            [bp EXCEPT
               !.shots = [s \in Shots |->
                   [bp.shots[s] EXCEPT
                      !.applyed_ken_burns =
                          @ \/ j.disk.shots[s].applyed_ken_burns,
                      !.ass_file_generated =
                          @ \/ j.disk.shots[s].ass_file_generated,
                      !.final_shot_video_generated =
                          @ \/ j.disk.shots[s].final_shot_video_generated]]]
    IN  [j EXCEPT !.disk = merged, !.exists = TRUE]

\* EffectManager.py:461-463, 488-490, 524-525  open(blueprint_path, 'w') and
\* model_dump_json of the blueprint object: the document is replaced whole.
Rewrite(j, bp) ==
    [j EXCEPT
       !.disk = bp,
       !.exists = TRUE,
       !.lost = @ \/ (j.exists /\ \E s \in Shots :
                   \/ j.disk.shots[s].applyed_ken_burns
                          /\ ~bp.shots[s].applyed_ken_burns
                   \/ j.disk.shots[s].ass_file_generated
                          /\ ~bp.shots[s].ass_file_generated
                   \/ j.disk.shots[s].applyed_ken_burns
                          /\ bp.shots[s].asset_path
                                 # j.disk.shots[s].asset_path)]

InitProject ==
    /\ NewProject([s \in Shots |-> "no_audio"])
    /\ cap = CapIdle
    /\ ez = EzIdle
    /\ dk = DkIdle
    /\ tts = TtsIdle
    /\ rt = [stage |-> "off"]
    /\ LET none == [shots |-> <<>>,
                    audio_generated |-> FALSE,
                    final_shots_videos_generated |-> FALSE,
                    output_path |-> NoPath,
                    rendered |-> FALSE]
       IN  pj = [stage |-> "on",
                 exists |-> FALSE,
                 disk |-> none,
                 files |-> {},
                 w |-> [p \in 1..2 |-> [pc |-> "idle", i |-> 0, mem |-> none]],
                 last |-> [cmd |-> "none", ok |-> TRUE, did |-> {}],
                 at |-> "free",
                 trace |-> <<>>,
                 lost |-> FALSE]

\* main.py:116-134  run_all is called.
InvokeRunAll ==
    /\ pj.stage = "on"
    /\ pj.at \in {"free", "end"}
    /\ pj.w[1].pc = "idle"
    /\ pj' = [pj EXCEPT !.at = "new",
                        !.trace = <<>>,
                        !.last = [cmd |-> "run_all", ok |-> TRUE, did |-> {}]]
    /\ UNCHANGED <<pipeline, cap, ez, dk, tts, rt>>

\* generate_blueprint_and_assets without the test for an existing blueprint.
NewAlways ==
    /\ pj.stage = "on"
    /\ pj.at \in {"free", "end", "new"}
    /\ pj.w[1].pc = "idle"
    /\ \E answer \in {"authored", "invalid", "cancelled"} :
        CASE answer = "invalid" ->
                 pj' = RunAllReturn(pj, 1, "new", FALSE, {"prompt"})
          [] answer = "cancelled" ->
                 \E k \in Shots :
                     pj' = RunAllReturn(
                               [pj EXCEPT !.files =
                                   @ \cup {SourceAsset(s) : s \in 1..(k - 1)}],
                               1, "new", FALSE, {"prompt", "mkdir"})
          [] OTHER ->
                 pj' = RunAllReturn(
                           [pj EXCEPT
                              !.exists = TRUE,
                              !.disk =
                                  [shots |-> [s \in Shots |->
                                                 NewShot(s, "no_audio")],
                                   audio_generated |-> FALSE,
                                   final_shots_videos_generated |-> FALSE,
                                   output_path |-> NoPath,
                                   rendered |-> FALSE],
                              !.files = @ \cup {SourceAsset(s) : s \in Shots}],
                           1, "new", TRUE, {"prompt", "mkdir", "write"})
    /\ UNCHANGED <<pipeline, cap, ez, dk, tts, rt>>

\* main.py:22-52, blueprint_manager.py:314-399 (and 187-313 for the assets)
\* the command new.  With a blueprint on the disk it returns True at once.
\* Otherwise the author is prompted: the draft is invalid (the exception
\* makes new return False), or the author gives up at the asset of shot k
\* (the directories made, the assets before k copied), or the assets are
\* copied and the blueprint is written with its defaults.
New ==
    /\ pj.stage = "on"
    /\ pj.at \in {"free", "end", "new"}
    /\ pj.w[1].pc = "idle"
    /\ IF pj.exists
       THEN pj' = RunAllReturn(pj, 1, "new", TRUE, {})
       ELSE \E answer \in {"authored", "invalid", "cancelled"} :
        CASE answer = "invalid" ->
                 pj' = RunAllReturn(pj, 1, "new", FALSE, {"prompt"})
          [] answer = "cancelled" ->
                 \E k \in Shots :
                     pj' = RunAllReturn(
                               [pj EXCEPT !.files =
                                   @ \cup {SourceAsset(s) : s \in 1..(k - 1)}],
                               1, "new", FALSE, {"prompt", "mkdir"})
          [] OTHER ->
                 pj' = RunAllReturn(
                           [pj EXCEPT
                              !.exists = TRUE,
                              !.disk =
                                  [shots |-> [s \in Shots |->
                                                 NewShot(s, "no_audio")],
                                   audio_generated |-> FALSE,
                                   final_shots_videos_generated |-> FALSE,
                                   output_path |-> NoPath,
                                   rendered |-> FALSE],
                              !.files = @ \cup {SourceAsset(s) : s \in Shots}],
                           1, "new", TRUE, {"prompt", "mkdir", "write"})
    /\ UNCHANGED <<pipeline, cap, ez, dk, tts, rt>>

\* main.py:55-73, tts_client.py:70-151  the command generate_audio.  The
\* audio directory is made first.  Every shot without audio_path gets its
\* narration and alignment document; when the synthesis or the reading of the
\* audio of a shot fails the command returns False and the blueprint is not
\* written (the files synthesized before remain under names no blueprint
\* holds); otherwise the blueprint is written once, with every audio_path
\* and audio_generated = True.
GenerateAudio ==
    /\ pj.stage = "on"
    /\ pj.at \in {"free", "end", "generate_audio"}
    /\ pj.w[1].pc = "idle"
    /\ IF ~pj.exists
       THEN pj' = RunAllReturn(pj, 1, "generate_audio", FALSE, {"mkdir"})
       ELSE LET need == {s \in Shots : pj.disk.shots[s].audio_path = NoPath}
                bp == [pj.disk EXCEPT
                         !.shots = [s \in Shots |->
                             IF s \in need
                             THEN [pj.disk.shots[s] EXCEPT
                                     !.audio_path = AudioFile(s)]
                             ELSE pj.disk.shots[s]],
                         !.audio_generated = TRUE]
            IN  \E failed \in need \cup {0} :
                    IF failed # 0
                    THEN pj' = RunAllReturn(pj, 1, "generate_audio", FALSE,
                                            {"mkdir"})
                    ELSE pj' = RunAllReturn(
                                   [Rewrite(pj, bp) EXCEPT
                                      !.files = @ \cup UNION
                                          {{AudioFile(s),
                                            TimestampFile(AudioFile(s))} :
                                               s \in need}],
                                   1, "generate_audio", TRUE,
                                   {"mkdir", "write"})
    /\ UNCHANGED <<pipeline, cap, ez, dk, tts, rt>>

\* main.py:75-94, EffectManager.py:421-526  the command add_effect run by
\* process p, one step per stage: the load of the blueprint, a final shot
\* passed over, the motion stage, the load of an animated clip, the caption
\* stage, the composite stage, and the last rewrite.  A stage that fails
\* makes the command return False.
AddEffect(p) ==
    /\ pj.stage = "on"
    /\ LET me == pj.w[p]
           n == me.i
           shot == me.mem.shots[n]
           running == [cmd |-> "add_effect", ok |-> TRUE, did |-> {"running"}]
           Fail == pj' = RunAllReturn([pj EXCEPT !.w[p].pc = "idle"],
                                      p, "add_effect", FALSE, {})
       IN  \/ /\ me.pc = "idle"
              /\ p # 1 \/ pj.at \in {"free", "end", "add_effect"}
              /\ IF pj.exists
                 THEN pj' = [pj EXCEPT
                               !.w[p] = [pc |-> "shot", i |-> 1,
                                         mem |-> pj.disk],
                               !.last = running]
                 ELSE Fail
           \/ /\ me.pc = "shot"
              /\ n <= NShots
              /\ AlreadyFinal(shot)
              /\ pj' = [pj EXCEPT !.w[p].i = n + 1, !.last = running]
           \/ /\ me.pc = "shot"
              /\ n <= NShots
              /\ ~AlreadyFinal(shot)
              /\ ~shot.applyed_ken_burns
              /\ \E ffmpegOk \in BOOLEAN :
                  LET r == ApplyKenBurnsAndAudio(shot, pj.files, ffmpegOk)
                      bp == [me.mem EXCEPT
                               !.shots[n] = MotionRecord(r.shot, n)]
                  IN  IF r.ok /\ r.shot.asset_path \in r.files
                      THEN pj' = [Rewrite(pj, bp) EXCEPT
                                    !.files = r.files,
                                    !.w[p] = [pc |-> "captions", i |-> n,
                                              mem |-> bp],
                                    !.last = running]
                      ELSE Fail
           \/ /\ me.pc = "shot"
              /\ n <= NShots
              /\ ~AlreadyFinal(shot)
              /\ shot.applyed_ken_burns
              /\ IF shot.asset_path \in pj.files
                 THEN pj' = [pj EXCEPT !.w[p].pc = "captions",
                                       !.last = running]
                 ELSE Fail
           \/ /\ me.pc = "captions"
              /\ IF shot.ass_file_generated
                 THEN pj' = [pj EXCEPT !.w[p].pc = "composite",
                                       !.last = running]
                 ELSE \E writeOk \in BOOLEAN :
                     LET ass == CreateAssFileForShot(
                                    TimestampFile(shot.audio_path),
                                    pj.files, {}, writeOk)
                         bp == [me.mem EXCEPT
                                  !.shots[n] = CaptionRecord(@, ass)]
                     IN  IF ass = NoPath
                         THEN Fail
                         ELSE pj' = [Rewrite(pj, bp) EXCEPT
                                       !.files = @ \cup {ass},
                                       !.w[p] = [pc |-> "composite", i |-> n,
                                                 mem |-> bp],
                                       !.last = running]
           \/ /\ me.pc = "composite"
              /\ \E writeOk \in BOOLEAN :
                  IF writeOk /\ shot.ass_file_path \in pj.files
                  THEN pj' = [pj EXCEPT
                                !.files = @ \cup {OutputPath(n)},
                                !.w[p] = [pc |-> "shot", i |-> n + 1,
                                          mem |-> [me.mem EXCEPT
                                              !.shots[n] =
                                                  CompositeRecord(@, n)]],
                                !.last = running]
                  ELSE Fail
           \/ /\ me.pc = "shot"
              /\ n > NShots
              /\ LET bp == [me.mem EXCEPT
                              !.final_shots_videos_generated = TRUE]
                 IN  pj' = RunAllReturn(
                               [Rewrite(pj, bp) EXCEPT
                                  !.w[p] = [pc |-> "idle", i |-> n,
                                            mem |-> bp]],
                               p, "add_effect", TRUE, {"write"})
    /\ UNCHANGED <<pipeline, cap, ez, dk, tts, rt>>

\* assemble marking the blueprint rendered whatever the write of the video
\* gave.
AssembleIgnoringWrite ==
    /\ pj.stage = "on"
    /\ pj.at \in {"free", "end", "assemble"}
    /\ pj.w[1].pc = "idle"
    /\ LET output_path == <<"final", 0>>
           bp == [pj.disk EXCEPT !.rendered = TRUE,
                                 !.output_path = output_path]
       IN  IF ~pj.exists \/ ~pj.disk.final_shots_videos_generated
           THEN pj' = RunAllReturn(pj, 1, "assemble", FALSE, {})
           ELSE IF pj.disk.rendered
           THEN pj' = RunAllReturn(pj, 1, "assemble", TRUE, {})
           ELSE \E writeOk \in BOOLEAN :
               pj' = RunAllReturn(
                         [Rewrite(pj, bp) EXCEPT
                            !.files = IF writeOk THEN @ \cup {output_path}
                                      ELSE @],
                         1, "assemble", TRUE, {"mkdir", "render", "write"})
    /\ UNCHANGED <<pipeline, cap, ez, dk, tts, rt>>

\* assemble without the test of final_shots_videos_generated.
AssembleUnchecked ==
    /\ pj.stage = "on"
    /\ pj.at \in {"free", "end", "assemble"}
    /\ pj.w[1].pc = "idle"
    /\ LET output_path == <<"final", 0>>
           bp == [pj.disk EXCEPT !.rendered = TRUE,
                                 !.output_path = output_path]
       IN  IF ~pj.exists
           THEN pj' = RunAllReturn(pj, 1, "assemble", FALSE, {})
           ELSE IF pj.disk.rendered
           THEN pj' = RunAllReturn(pj, 1, "assemble", TRUE, {})
           ELSE \E writeOk \in BOOLEAN :
               IF writeOk /\ \A s \in Shots :
                                 pj.disk.shots[s].asset_path \in pj.files
               THEN pj' = RunAllReturn(
                              [Rewrite(pj, bp) EXCEPT
                                 !.files = @ \cup {output_path}],
                              1, "assemble", TRUE,
                              {"mkdir", "render", "write"})
               ELSE pj' = RunAllReturn(pj, 1, "assemble", FALSE,
                                       {"mkdir", "render"})
    /\ UNCHANGED <<pipeline, cap, ez, dk, tts, rt>>

\* main.py:96-114, assembler.py:14-93  the command assemble.  No blueprint,
\* or final_shots_videos_generated false: False.  rendered already: True,
\* nothing done.  Otherwise the output directory is made and the shot videos
\* are loaded and concatenated; the test of line 60 never fires (exists() of
\* an anyio Path returns a coroutine object, which is true), so that a
\* missing shot video makes VideoFileClip raise, and the command returns
\* False as it does when the write of the video fails.  After the write the
\* blueprint is written with rendered and output_path.
Assemble ==
    /\ pj.stage = "on"
    /\ pj.at \in {"free", "end", "assemble"}
    /\ pj.w[1].pc = "idle"
    /\ LET output_path == <<"final", 0>>
           bp == [pj.disk EXCEPT !.rendered = TRUE,
                                 !.output_path = output_path]
       IN  IF ~pj.exists \/ ~pj.disk.final_shots_videos_generated
           THEN pj' = RunAllReturn(pj, 1, "assemble", FALSE, {})
           ELSE IF pj.disk.rendered
           THEN pj' = RunAllReturn(pj, 1, "assemble", TRUE, {})
           ELSE \E writeOk \in BOOLEAN :
               IF writeOk /\ \A s \in Shots :
                                 pj.disk.shots[s].asset_path \in pj.files
               THEN pj' = RunAllReturn(
                              [Rewrite(pj, bp) EXCEPT
                                 !.files = @ \cup {output_path}],
                              1, "assemble", TRUE,
                              {"mkdir", "render", "write"})
               ELSE pj' = RunAllReturn(pj, 1, "assemble", FALSE,
                                       {"mkdir", "render"})
    /\ UNCHANGED <<pipeline, cap, ez, dk, tts, rt>>

\* Somebody deletes a shot video or the final video while no command runs.
DeleteOutput ==
    /\ pj.stage = "on"
    /\ pj.at \in {"free", "end"}
    /\ pj.w[1].pc = "idle"
    /\ \E path \in {q \in pj.files : q[1] \in {"output", "final"}} :
        pj' = [pj EXCEPT !.files = @ \ {path},
                         !.last = [cmd |-> "delete", ok |-> TRUE,
                                   did |-> {}]]
    /\ UNCHANGED <<pipeline, cap, ez, dk, tts, rt>>

NextProject ==
    \/ InvokeRunAll
    \/ New
    \/ GenerateAudio
    \/ AddEffect(1)
    \/ Assemble
    \/ DeleteOutput

\* One process at a time works on the project.
SpecProject == InitProject /\ [][NextProject]_vars

NextConcurrent ==
    \/ New
    \/ GenerateAudio
    \/ \E p \in 1..2 : AddEffect(p)

\* Two processes run add_effect on the project at the same time.
SpecConcurrent == InitProject /\ [][NextConcurrent]_vars

\* ---------------------------------------------------------------------------
\* Properties of the commands on a project.
\* ---------------------------------------------------------------------------

\* C31: when the blueprint file exists, new returns success without
\* prompting, without creating directories and without writing the blueprint
\* or any other file.
C31_CreatedOnce ==
    [][(pj.stage = "on" /\ pj.exists /\ pj'.last.cmd = "new") =>
            /\ pj'.last.ok
            /\ pj'.last.did = {}
            /\ pj'.exists
            /\ pj'.disk = pj.disk
            /\ pj'.files = pj.files]_vars

\* C31 happens: new has returned at once on a blueprint that a later stage
\* had already changed.
C31_Witness ==
    /\ pj.stage = "on"
    /\ pj.last = [cmd |-> "new", ok |-> TRUE, did |-> {}]
    /\ pj.disk.audio_generated
    /\ pj.disk.shots[1].applyed_ken_burns

\* C33: run_all calls new, generate_audio, add_effect, assemble in this
\* order, each only after every earlier one returned success, and none after
\* the first that failed.
C33_RunAllOrder ==
    pj.stage = "on" =>
        LET order == <<"new", "generate_audio", "add_effect", "assemble">>
            called == Len(pj.trace)
        IN  /\ called <= 4
            /\ \A k \in DOMAIN pj.trace :
                   /\ pj.trace[k][1] = order[k]
                   /\ k < called => pj.trace[k][2]
            /\ pj.at \notin {"free", "end"} =>
                   /\ called < 4
                   /\ pj.at = order[called + 1]
                   /\ \A k \in DOMAIN pj.trace : pj.trace[k][2]
                   /\ pj.last.cmd \in
                          {IF called = 0 THEN "run_all" ELSE order[called],
                           IF pj.at = "add_effect" THEN "add_effect"
                           ELSE "run_all"}
            /\ (\E k \in DOMAIN pj.trace : ~pj.trace[k][2]) => pj.at = "end"

\* C33 happens: run_all has stopped after add_effect failed, new and
\* generate_audio having succeeded.
C33_Witness ==
    /\ pj.stage = "on"
    /\ pj.at = "end"
    /\ pj.trace = <<<<"new", TRUE>>, <<"generate_audio", TRUE>>,
                    <<"add_effect", FALSE>>>>
    /\ pj.disk.shots[1].applyed_ken_burns

\* C34: assemble sets rendered (with output_path) only when
\* final_shots_videos_generated is true and the final video is written; with
\* final_shots_videos_generated false, a failed concatenation or write, or a
\* missing shot video it returns failure and leaves the blueprint unchanged;
\* with rendered already true it returns success and does nothing.
C34_AssembleOutcome ==
    [][(pj.stage = "on" /\ pj'.last.cmd = "assemble") =>
            LET missing == pj.exists /\ \E s \in Shots :
                               pj.disk.shots[s].asset_path \notin pj.files
                failed == "render" \in pj'.last.did /\ ~pj'.last.ok
            IN  /\ (pj'.disk.rendered /\ ~pj.disk.rendered) =>
                       /\ pj.disk.final_shots_videos_generated
                       /\ pj'.disk.output_path \in pj'.files
                       /\ "render" \in pj'.last.did
                       /\ pj'.last.ok
                /\ (\/ ~pj.exists
                    \/ ~pj.disk.final_shots_videos_generated
                    \/ missing
                    \/ failed) =>
                       (~pj'.last.ok /\ pj'.disk = pj.disk)
                /\ (pj.exists /\ pj.disk.rendered) =>
                       /\ pj'.last.ok
                       /\ pj'.last.did = {}
                       /\ pj'.disk = pj.disk
                       /\ pj'.files = pj.files]_vars

\* C34, the failures being those of a blueprint not yet rendered: with
\* rendered already true assemble returns success and does nothing, whether
\* the shot videos are still there or not.
C34_AssembleOutcomeUnrendered ==
    [][(pj.stage = "on" /\ pj'.last.cmd = "assemble") =>
            LET missing == pj.exists /\ \E s \in Shots :
                               pj.disk.shots[s].asset_path \notin pj.files
                failed == "render" \in pj'.last.did /\ ~pj'.last.ok
            IN  /\ (pj'.disk.rendered /\ ~pj.disk.rendered) =>
                       /\ pj.disk.final_shots_videos_generated
                       /\ pj'.disk.output_path \in pj'.files
                       /\ "render" \in pj'.last.did
                       /\ pj'.last.ok
                /\ (/\ ~(pj.exists /\ pj.disk.rendered)
                    /\ \/ ~pj.exists
                       \/ ~pj.disk.final_shots_videos_generated
                       \/ missing
                       \/ failed) =>
                       (~pj'.last.ok /\ pj'.disk = pj.disk)
                /\ (pj.exists /\ pj.disk.rendered) =>
                       /\ pj'.last.ok
                       /\ pj'.last.did = {}
                       /\ pj'.disk = pj.disk
                       /\ pj'.files = pj.files]_vars

\* C34 happens: assemble has failed on a blueprint with every shot final,
\* a shot video having been deleted, and left the blueprint unrendered.
C34_Witness ==
    /\ pj.stage = "on"
    /\ pj.last = [cmd |-> "assemble", ok |-> FALSE,
                  did |-> {"mkdir", "render"}]
    /\ pj.disk.final_shots_videos_generated
    /\ ~pj.disk.rendered
    /\ OutputPath(1) \notin pj.files

\* C36: two processes running add_effect on one project are not kept apart:
\* whatever the document on the disk holds, a rewrite stores the blueprint
\* object of the process that writes, whole, so that what the other process
\* has written since that object was loaded is lost.
C36_RewriteIsWhole ==
    [][(/\ pj.stage = "on"
        /\ pj'.last.cmd = "add_effect"
        /\ pj'.disk # pj.disk) =>
            \E p \in 1..2 : pj'.w[p] # pj.w[p] /\ pj'.disk = pj'.w[p].mem]_vars

\* C36 happens: a rewrite has cleared a flag the other process had written,
\* the caption flag of a shot being false on the disk beside its subtitle
\* document.
C36_Witness ==
    /\ pj.stage = "on"
    /\ pj.lost
    /\ \E s \in Shots :
           /\ ~pj.disk.shots[s].ass_file_generated
           /\ AssPath(TimestampFile(AudioFile(s))) \in pj.files

\* C37: in every blueprint on the disk, rendered implies
\* final_shots_videos_generated, and final_shots_videos_generated implies
\* final_shot_video_generated of every shot and audio_generated.
C37_PipelineFlags ==
    (pj.stage = "on" /\ pj.exists) =>
        /\ pj.disk.rendered => pj.disk.final_shots_videos_generated
        /\ pj.disk.final_shots_videos_generated =>
               /\ \A s \in Shots : pj.disk.shots[s].final_shot_video_generated
               /\ pj.disk.audio_generated

\* C37 happens: the blueprint is rendered after an add_effect that failed
\* and one that went through.
C37_Witness ==
    /\ pj.stage = "on"
    /\ pj.disk.rendered
    /\ pj.disk.final_shots_videos_generated
    /\ pj.disk.audio_generated
    /\ pj.last.cmd = "assemble"
    /\ pj.w[1].i > NShots

\* C38: with one process at a time, a completion flag that is true in the
\* blueprint on the disk is true after every later step of every command.
C38_FlagsStay ==
    [][(pj.stage = "on" /\ pj.exists) =>
            /\ pj'.exists
            /\ pj.disk.audio_generated => pj'.disk.audio_generated
            /\ pj.disk.final_shots_videos_generated =>
                   pj'.disk.final_shots_videos_generated
            /\ pj.disk.rendered => pj'.disk.rendered
            /\ \A s \in Shots :
                   /\ pj.disk.shots[s].applyed_ken_burns =>
                          pj'.disk.shots[s].applyed_ken_burns
                   /\ pj.disk.shots[s].ass_file_generated =>
                          pj'.disk.shots[s].ass_file_generated
                   /\ pj.disk.shots[s].final_shot_video_generated =>
                          pj'.disk.shots[s].final_shot_video_generated]_vars

\* C38 happens: add_effect has run again on a rendered blueprint and has
\* rewritten it, the flags staying.
C38_Witness ==
    /\ pj.stage = "on"
    /\ pj.disk.rendered
    /\ pj.last = [cmd |-> "add_effect", ok |-> TRUE, did |-> {"write"}]
    /\ ~pj.lost

\* ---------------------------------------------------------------------------
\* The blueprint document: model_dump_json and model_validate_json.
\*
\* A value of Python is kept with its type: a str is the sequence of its
\* characters, [kind |-> "str", s |-> ...] under Optional[str] beside
\* [kind |-> "None"]; a number is [kind |-> "int" or "float", n |-> ...] in
\* thousandths; a member of an enumeration is its name; a tuple is a
\* sequence.  A value of the document is a token of JSON: a string with its
\* escaped characters, a number, true, false, null, or an array.
\* ---------------------------------------------------------------------------

\* models.py:8-20  the members of the two enumerations and their values.
EnumValues ==
    [TTSModelId |->
         [ELEVEN_MULTILINGUAL_V2 |-> "eleven_multilingual_v2",
          ELEVEN_V2 |-> "eleven_v3"],
     ViralFormula |->
         [SECRET_VALUE |-> "Secret Value",
          CURIOSITY_PEAK |-> "Curiosity Peak",
          PRE_HOOK_STORY_END |-> "Pre-Hook, Hook, Story, End",
          PROBLEM_AGITATE_SOLVE |-> "Problem, Agitate, Solve",
          MYTH_BUSTING |-> "Myth Busting",
          INFINITE_LOOP |-> "Infinite Loop"]]

\* An enumeration read by the names of its members.
EnumMemberByName(cls, text) ==
    IF text \in DOMAIN EnumValues[cls] THEN text ELSE "invalid"

\* The member of an enumeration whose value is the text of the document.
EnumMember(cls, text) ==
    IF \E m \in DOMAIN EnumValues[cls] : EnumValues[cls][m] = text
    THEN CHOOSE m \in DOMAIN EnumValues[cls] : EnumValues[cls][m] = text
    ELSE "invalid"

\* The characters of a str between the quotes of a JSON string.
RECURSIVE Escape(_)
Escape(s) ==
    IF s = <<>> THEN <<>>
    ELSE (IF Head(s) \in {"\"", "\\"} THEN <<"\\", Head(s)>>
          ELSE <<Head(s)>>) \o Escape(Tail(s))

\* The str a JSON string stands for.
RECURSIVE Unescape(_)
Unescape(t) ==
    IF t = <<>> THEN <<>>
    ELSE IF Head(t) = "\\" /\ Len(t) >= 2
    THEN <<t[2]>> \o Unescape(Tail(Tail(t)))
    ELSE <<Head(t)>> \o Unescape(Tail(t))

\* models.py:172-295  Blueprint.model_dump_json.
ModelDumpJson(bp) ==
    LET JStr(s) == [t |-> "string", v |-> Escape(s)]
        JOpt(x) == IF x.kind = "None" THEN [t |-> "null"] ELSE JStr(x.s)
        JBool(b) == IF b THEN [t |-> "true"] ELSE [t |-> "false"]
        JNum(x) == [t |-> "number", v |-> x.n, point |-> x.kind = "float"]
        JEnum(cls, m) == [t |-> "string", v |-> EnumValues[cls][m]]
        JLit(x) == [t |-> "string", v |-> x]
        JArr(p) == [k \in DOMAIN p |-> JNum(p[k])]
        JStyle(k) ==
            [media_type |-> JLit(k.media_type),
             start_scale |-> JNum(k.start_scale),
             end_scale |-> JNum(k.end_scale),
             start_position |-> JArr(k.start_position),
             end_position |-> JArr(k.end_position),
             easing_function |-> JLit(k.easing_function)]
        JShot(s) ==
            [shot_id |-> JStr(s.shot_id),
             asset_path |-> JStr(s.asset_path),
             audio_path |-> JOpt(s.audio_path),
             ass_file_path |-> JOpt(s.ass_file_path),
             duration_seconds |-> JNum(s.duration_seconds),
             applyed_ken_burns |-> JBool(s.applyed_ken_burns),
             applyed_captions |-> JBool(s.applyed_captions),
             ass_file_generated |-> JBool(s.ass_file_generated),
             script |-> JStr(s.script),
             voice_settings |-> [speed |-> JNum(s.voice_settings.speed)],
             ken_burns_style |-> JStyle(s.ken_burns_style),
             final_shot_video_generated |->
                 JBool(s.final_shot_video_generated)]
    IN  [project_name |-> JStr(bp.project_name),
         video_title |-> JStr(bp.video_title),
         video_description |-> JStr(bp.video_description),
         TTS_voice_id |-> JStr(bp.TTS_voice_id),
         TTS_model_id |-> JEnum("TTSModelId", bp.TTS_model_id),
         scene |->
             [scene_id |-> JStr(bp.scene.scene_id),
              shots |-> [k \in DOMAIN bp.scene.shots |->
                             JShot(bp.scene.shots[k])]],
         version |-> JStr(bp.version),
         script_formula |-> JEnum("ViralFormula", bp.script_formula),
         promotion |-> JBool(bp.promotion),
         audio_generated |-> JBool(bp.audio_generated),
         final_shots_videos_generated |->
             JBool(bp.final_shots_videos_generated),
         output_path |-> JOpt(bp.output_path),
         rendered |-> JBool(bp.rendered)]

\* models.py:172-295  Blueprint.model_validate_json: every field is read
\* under its declared type, and one field that cannot be makes the whole
\* document invalid.
ModelValidateJson(doc) ==
    LET IsStr(x) == x.t = "string"
        IsOpt(x) == x.t \in {"null", "string"}
        IsBool(x) == x.t \in {"true", "false"}
        IsNum(x) == x.t = "number"
        IsPair(a) == Len(a) = 2 /\ \A k \in 1..2 : IsNum(a[k])
        PStr(x) == Unescape(x.v)
        POpt(x) == IF x.t = "null" THEN [kind |-> "None"]
                   ELSE [kind |-> "str", s |-> Unescape(x.v)]
        PBool(x) == x.t = "true"
        PFloat(x) == [kind |-> "float", n |-> x.v]
        PPair(a) == <<PFloat(a[1]), PFloat(a[2])>>
        StyleOk(k) ==
            /\ IsStr(k.media_type) /\ k.media_type.v \in {"image", "video"}
            /\ IsNum(k.start_scale)
            /\ IsNum(k.end_scale)
            /\ IsPair(k.start_position)
            /\ IsPair(k.end_position)
            /\ IsStr(k.easing_function)
            /\ k.easing_function.v \in
                   {"linear", "ease_in_quad", "ease_out_quad",
                    "ease_in_out_quad", "ease_in_cubic", "ease_out_cubic",
                    "ease_in_out_cubic"}
        ShotOk(s) ==
            /\ IsStr(s.shot_id)
            /\ IsStr(s.asset_path)
            /\ IsOpt(s.audio_path)
            /\ IsOpt(s.ass_file_path)
            /\ IsNum(s.duration_seconds) /\ s.duration_seconds.v >= 0
            /\ IsBool(s.applyed_ken_burns)
            /\ IsBool(s.applyed_captions)
            /\ IsBool(s.ass_file_generated)
            /\ IsStr(s.script)
            /\ IsNum(s.voice_settings.speed) /\ s.voice_settings.speed.v > 0
            /\ StyleOk(s.ken_burns_style)
            /\ IsBool(s.final_shot_video_generated)
        Ok ==
            /\ IsStr(doc.project_name)
            /\ IsStr(doc.video_title)
            /\ IsStr(doc.video_description)
            /\ IsStr(doc.TTS_voice_id)
            /\ IsStr(doc.TTS_model_id)
            /\ EnumMember("TTSModelId", doc.TTS_model_id.v) # "invalid"
            /\ IsStr(doc.scene.scene_id)
            /\ \A k \in DOMAIN doc.scene.shots : ShotOk(doc.scene.shots[k])
            /\ IsStr(doc.version)
            /\ IsStr(doc.script_formula)
            /\ EnumMember("ViralFormula", doc.script_formula.v) # "invalid"
            /\ IsBool(doc.promotion)
            /\ IsBool(doc.audio_generated)
            /\ IsBool(doc.final_shots_videos_generated)
            /\ IsOpt(doc.output_path)
            /\ IsBool(doc.rendered)
        PStyle(k) ==
            [media_type |-> k.media_type.v,
             start_scale |-> PFloat(k.start_scale),
             end_scale |-> PFloat(k.end_scale),
             start_position |-> PPair(k.start_position),
             end_position |-> PPair(k.end_position),
             easing_function |-> k.easing_function.v]
        PShot(s) ==
            [shot_id |-> PStr(s.shot_id),
             asset_path |-> PStr(s.asset_path),
             audio_path |-> POpt(s.audio_path),
             ass_file_path |-> POpt(s.ass_file_path),
             duration_seconds |-> PFloat(s.duration_seconds),
             applyed_ken_burns |-> PBool(s.applyed_ken_burns),
             applyed_captions |-> PBool(s.applyed_captions),
             ass_file_generated |-> PBool(s.ass_file_generated),
             script |-> PStr(s.script),
             voice_settings |-> [speed |-> PFloat(s.voice_settings.speed)],
             ken_burns_style |-> PStyle(s.ken_burns_style),
             final_shot_video_generated |->
                 PBool(s.final_shot_video_generated)]
    IN  IF ~Ok THEN [valid |-> FALSE]
        ELSE [valid |-> TRUE,
              bp |->
                [project_name |-> PStr(doc.project_name),
                 video_title |-> PStr(doc.video_title),
                 video_description |-> PStr(doc.video_description),
                 TTS_voice_id |-> PStr(doc.TTS_voice_id),
                 TTS_model_id |->
                     EnumMember("TTSModelId", doc.TTS_model_id.v),
                 scene |->
                     [scene_id |-> PStr(doc.scene.scene_id),
                      shots |-> [k \in DOMAIN doc.scene.shots |->
                                     PShot(doc.scene.shots[k])]],
                 version |-> PStr(doc.version),
                 script_formula |->
                     EnumMember("ViralFormula", doc.script_formula.v),
                 promotion |-> PBool(doc.promotion),
                 audio_generated |-> PBool(doc.audio_generated),
                 final_shots_videos_generated |->
                     PBool(doc.final_shots_videos_generated),
                 output_path |-> POpt(doc.output_path),
                 rendered |-> PBool(doc.rendered)]]

\* models.py:210-295  blueprints of n shots as the stages leave them: every
\* combination of the four flags of each shot and of the four of the
\* blueprint, no easing function the default one, a shot never narrated
\* (no audio path, the duration the int 0 of the declaration) beside a
\* narrated one, paths of Windows with their backslashes, a script with
\* quotation marks, both members of TTSModelId.
BlueprintInputs(n) ==
    LET digit == <<"1", "2", "3", "4">>
        easings == <<"linear", "ease_in_quad", "ease_out_quad",
                     "ease_in_cubic", "ease_out_cubic", "ease_in_out_cubic">>
        None == [kind |-> "None"]
        Str(x) == [kind |-> "str", s |-> x]
        Float(x) == [kind |-> "float", n |-> x]
        d(s) == digit[((s - 1) % 4) + 1]
        ShotOf(s, f) ==
            [shot_id |-> <<"s", d(s)>>,
             asset_path |-> IF f["final_shot_video_generated"]
                            THEN <<"o", "u", "t", "\\", d(s)>>
                            ELSE <<"a", "/", d(s)>>,
             audio_path |-> IF s % 2 = 1 THEN None
                            ELSE Str(<<"a", "u", "\\", d(s)>>),
             ass_file_path |-> IF f["ass_file_generated"]
                               THEN Str(<<"t", "s", "\\", d(s)>>)
                               ELSE None,
             duration_seconds |-> IF s % 2 = 1 THEN [kind |-> "int", n |-> 0]
                                  ELSE Float(1500 + 250 * s),
             applyed_ken_burns |-> f["applyed_ken_burns"],
             applyed_captions |-> f["applyed_captions"],
             ass_file_generated |-> f["ass_file_generated"],
             script |-> <<"H", "\"", "i", "\"", d(s)>>,
             voice_settings |-> [speed |-> Float(980)],
             ken_burns_style |->
                 [media_type |-> IF s % 2 = 1 THEN "image" ELSE "video",
                  start_scale |-> Float(1000),
                  end_scale |-> Float(1137 + s),
                  start_position |-> <<Float(0), Float(0)>>,
                  end_position |-> <<Float(500), Float(500)>>,
                  easing_function |-> easings[((s - 1) % 6) + 1]],
             final_shot_video_generated |-> f["final_shot_video_generated"]]
    IN  {[project_name |-> <<"p">>,
          video_title |-> <<"T", "\"", "1", "\"">>,
          video_description |-> <<"d", "\\", "n">>,
          TTS_voice_id |-> <<"6", "8", "R">>,
          TTS_model_id |-> IF f["promotion"] THEN "ELEVEN_V2"
                           ELSE "ELEVEN_MULTILINGUAL_V2",
          scene |-> [scene_id |-> <<"s", "c">>,
                     shots |-> [s \in 1..n |-> ShotOf(s, sf[s])]],
          version |-> <<"A">>,
          script_formula |-> IF f["audio_generated"] THEN "MYTH_BUSTING"
                             ELSE "SECRET_VALUE",
          promotion |-> f["promotion"],
          audio_generated |-> f["audio_generated"],
          final_shots_videos_generated |->
              f["final_shots_videos_generated"],
          output_path |-> IF f["rendered"]
                          THEN Str(<<"o", "u", "t", "\\", "f">>)
                          ELSE None,
          rendered |-> f["rendered"]] :
            f \in [{"promotion", "audio_generated",
                    "final_shots_videos_generated", "rendered"} -> BOOLEAN],
            sf \in [1..n -> [{"applyed_ken_burns", "applyed_captions",
                              "ass_file_generated",
                              "final_shot_video_generated"} -> BOOLEAN]]}

InitRoundTrip ==
    /\ NewProject([s \in Shots |-> "no_audio"])
    /\ cap = CapIdle
    /\ ez = EzIdle
    /\ dk = DkIdle
    /\ tts = TtsIdle
    /\ pj = [stage |-> "off"]
    /\ \E bp \in BlueprintInputs(NShots) : rt = [stage |-> "made", bp |-> bp]

\* A stage writes the blueprint it holds: f.write(model_dump_json()).
WriteBlueprint ==
    /\ rt.stage = "made"
    /\ rt' = [stage |-> "written", bp |-> rt.bp, text |-> ModelDumpJson(rt.bp)]
    /\ UNCHANGED <<pipeline, cap, ez, dk, tts, pj>>

\* The next stage reads it back: model_validate_json(f.read()).
ReadBlueprint ==
    /\ rt.stage = "written"
    /\ rt' = [stage |-> "read", bp |-> rt.bp, text |-> rt.text,
              back |-> ModelValidateJson(rt.text)]
    /\ UNCHANGED <<pipeline, cap, ez, dk, tts, pj>>

NextRoundTrip ==
    \/ WriteBlueprint
    \/ ReadBlueprint

SpecRoundTrip == InitRoundTrip /\ [][NextRoundTrip]_vars

\* ---------------------------------------------------------------------------
\* Properties of the blueprint document.
\* ---------------------------------------------------------------------------

\* Equality of two blueprints as Python compares them, field by field: an
\* int and a float are equal when their values are, None is equal to None
\* only, a str to the str of the same characters.
SameBlueprint(a, b) ==
    LET SameNum(x, y) == x.n = y.n
        SamePair(p, q) ==
            /\ Len(p) = Len(q)
            /\ \A k \in DOMAIN p : SameNum(p[k], q[k])
        SameStyle(k, l) ==
            /\ k.media_type = l.media_type
            /\ SameNum(k.start_scale, l.start_scale)
            /\ SameNum(k.end_scale, l.end_scale)
            /\ SamePair(k.start_position, l.start_position)
            /\ SamePair(k.end_position, l.end_position)
            /\ k.easing_function = l.easing_function
        SameShot(s, u) ==
            /\ s.shot_id = u.shot_id
            /\ s.asset_path = u.asset_path
            /\ s.audio_path = u.audio_path
            /\ s.ass_file_path = u.ass_file_path
            /\ SameNum(s.duration_seconds, u.duration_seconds)
            /\ s.applyed_ken_burns = u.applyed_ken_burns
            /\ s.applyed_captions = u.applyed_captions
            /\ s.ass_file_generated = u.ass_file_generated
            /\ s.script = u.script
            /\ SameNum(s.voice_settings.speed, u.voice_settings.speed)
            /\ SameStyle(s.ken_burns_style, u.ken_burns_style)
            /\ s.final_shot_video_generated = u.final_shot_video_generated
    IN  /\ a.project_name = b.project_name
        /\ a.video_title = b.video_title
        /\ a.video_description = b.video_description
        /\ a.TTS_voice_id = b.TTS_voice_id
        /\ a.TTS_model_id = b.TTS_model_id
        /\ a.scene.scene_id = b.scene.scene_id
        /\ Len(a.scene.shots) = Len(b.scene.shots)
        /\ \A k \in DOMAIN a.scene.shots :
               SameShot(a.scene.shots[k], b.scene.shots[k])
        /\ a.version = b.version
        /\ a.script_formula = b.script_formula
        /\ a.promotion = b.promotion
        /\ a.audio_generated = b.audio_generated
        /\ a.final_shots_videos_generated = b.final_shots_videos_generated
        /\ a.output_path = b.output_path
        /\ a.rendered = b.rendered

\* C32: a blueprint written with model_dump_json and read back with
\* model_validate_json is valid and equal to the one written in every field,
\* whatever its flags, with easing functions other than the default.
C32_RoundTrip ==
    rt.stage = "read" =>
        /\ rt.back.valid
        /\ SameBlueprint(rt.back.bp, rt.bp)

\* C32 happens: a blueprint has come back whose flags are mixed, whose model
\* id is the member with a value unlike its name, whose first shot was never
\* narrated (null in the document, the int 0 read back as a float) and whose
\* paths were written with escaped backslashes.
C32_Witness ==
    /\ rt.stage = "read"
    /\ rt.back.valid
    /\ rt.bp.TTS_model_id = "ELEVEN_V2"
    /\ rt.text.TTS_model_id.v = "eleven_v3"
    /\ rt.bp.rendered /\ ~rt.bp.audio_generated
    /\ rt.bp.scene.shots[1].final_shot_video_generated
    /\ ~rt.bp.scene.shots[1].applyed_ken_burns
    /\ rt.bp.scene.shots[1].ken_burns_style.easing_function = "linear"
    /\ rt.back.bp.scene.shots[1].ken_burns_style.easing_function = "linear"
    /\ rt.text.scene.shots[1].audio_path.t = "null"
    /\ rt.bp.scene.shots[1].duration_seconds.kind = "int"
    /\ rt.back.bp.scene.shots[1].duration_seconds.kind = "float"
    /\ Len(rt.text.output_path.v) = Len(rt.bp.output_path.s) + 1
    /\ rt.back.bp.output_path = rt.bp.output_path

====
